---------------------------- MODULE Spec2Model ----------------------------
(***************************************************************************)
(* A model of source/updateCheck.py, the update engine of the screen       *)
(* reader: the multi-mirror downloader (UpdateDownloader), the persisted   *)
(* pending-update state (getPendingUpdate, initialize) and the check       *)
(* scheduler (UpdateChecker, AutoUpdateChecker).                           *)
(*                                                                         *)
(* Two execution contexts are modelled: the primary (GUI) context, which   *)
(* runs timer notifications and wx.CallAfter calls one at a time, and the  *)
(* worker threads (UpdateDownloader._bg, UpdateChecker._bg), whose         *)
(* statements interleave with the GUI context.                             *)
(***************************************************************************)
EXTENDS Integers, Sequences, FiniteSets, TLC

\* ------------------------------------------------------------------------
\* Bounds of the model
\* ------------------------------------------------------------------------

\* The longest mirror list (number of URLs in launcherUrl) that is explored.
MaxMirrors == 3

\* The download block size in bytes: 8192 in the source, scaled down so that
\* the three-byte artifact below is read in more than one block.
DOWNLOAD_BLOCK_SIZE == 2

\* The size of the digest space of the stand-in for hashlib.sha1.
DigestSpace == 7

\* The resolution of the clock: time.time() is a float, modelled as a whole
\* number of ticks, TicksPerSecond of them in a second.
TicksPerSecond == 2

\* ------------------------------------------------------------------------
\* Program constants
\* ------------------------------------------------------------------------

\* The time to wait between checks, in seconds.
CHECK_INTERVAL == 86400

\* The time to wait before retrying a failed check, in seconds.
RETRY_INTERVAL == 600

\* ------------------------------------------------------------------------
\* Values
\* ------------------------------------------------------------------------

\* Python's None, for fields that hold a string or an object otherwise.
None == "None"

\* The attribute was never assigned (UpdateDownloader.start does not create
\* _guiExecFunc and _guiExecArgs; _guiExec does).
Unset == "Unset"

\* The argument slot when it holds no tuple: never assigned, or None.
UnsetArgs == <<Unset>>
NoneArgs == <<None>>

\* _guiExecNotify is not running.
Idle == "Idle"

\* ------------------------------------------------------------------------
\* The download servers (the environment of UpdateDownloader._download)
\* ------------------------------------------------------------------------

\* The genuine artifact, a copy of it with one byte changed, and a truncated
\* copy.
Artifact == <<1, 0, 1>>
Tampered == <<1, 1, 1>>
Truncated == <<1, 0>>

\* One-character URLs name the mirrors:
\*   G  answers 200 and delivers the artifact
\*   T  answers 200 and delivers the tampered artifact
\*   S  answers 200, declares the artifact's length, delivers the truncated copy
\*   N  answers with a status code other than 200
\*   E  cannot be opened (urlopen raises: connection failure, timeout, HTTP error)
MirrorIds == {"G", "T", "S", "N", "E"}

Mirror(c) ==
    CASE c = "G" -> [openError |-> FALSE, code |-> 200, size |-> Len(Artifact), body |-> Artifact]
      [] c = "T" -> [openError |-> FALSE, code |-> 200, size |-> Len(Artifact), body |-> Tampered]
      [] c = "S" -> [openError |-> FALSE, code |-> 200, size |-> Len(Artifact), body |-> Truncated]
      [] c = "N" -> [openError |-> FALSE, code |-> 204, size |-> 0, body |-> <<>>]
      [] OTHER   -> [openError |-> TRUE, code |-> 0, size |-> 0, body |-> <<>>]

\* urllib.request.urlopen(url): what the URL answers. Any string that is not
\* the URL of a mirror (the empty string included) cannot be opened.
urlopen(url) ==
    IF Len(url) = 1 /\ url[1] \in MirrorIds THEN Mirror(url[1]) ELSE Mirror("E")

\* ------------------------------------------------------------------------
\* Pure functions of the downloader
\* ------------------------------------------------------------------------

\* hashlib.sha1: hasher.update folds the bytes of a block into the running
\* digest. The stand-in is a polynomial hash over DigestSpace values.
RECURSIVE sha1Update(_, _)
sha1Update(h, block) ==
    IF block = <<>> THEN h
    ELSE sha1Update((h * 3 + Head(block) + 1) % DigestSpace, Tail(block))

sha1(bytes) == sha1Update(0, bytes)

\* str.split(" "): the substrings between single spaces, empty ones included.
RECURSIVE split(_, _, _)
split(s, cur, acc) ==
    IF s = <<>> THEN Append(acc, cur)
    ELSE IF Head(s) = " " THEN split(Tail(s), <<>>, Append(acc, cur))
    ELSE split(Tail(s), Append(cur, Head(s)), acc)

\* " ".join(ids): the launcherUrl of a descriptor that lists the mirrors ids.
RECURSIVE join(_)
join(ids) ==
    IF Len(ids) = 0 THEN <<>>
    ELSE IF Len(ids) = 1 THEN <<ids[1]>>
    ELSE <<ids[1], " ">> \o join(Tail(ids))

Min(a, b) == IF a < b THEN a ELSE b
Max(a, b) == IF a > b THEN a ELSE b

\* _download: "if size - read < chunk: chunk = size - read".
nextChunk(chunk, size, read) == IF size - read < chunk THEN size - read ELSE chunk

\* remote.read(chunk): the next chunk bytes of the body, fewer at its end.
remoteRead(body, read, chunk) ==
    SubSeq(body, read + 1, Min(read + chunk, Len(body)))

\* _download, after the read loop: "Content too short" and "Content has
\* incorrect file hash". fileHash is <<>> when the descriptor has no
\* launcherHash (None or empty: both are falsy) and <<h>> otherwise.
\* Mutant: the length check is left out.
contentTooShort_off(read, size) == FALSE

contentTooShort(read, size) == read < size
incorrectFileHash(fileHash, digest) == fileHash # <<>> /\ digest # fileHash[1]

\* ------------------------------------------------------------------------
\* The persisted state: values
\* ------------------------------------------------------------------------

\* The module global state when it is None (before initialize).
NoState == [isNone |-> TRUE]

\* versionInfo.version and the version of an update.
RunningVersion == "v1"
NewVersion == "v2"

\* Paths: the directory and the base name. storeUpdatesDir is the directory
\* "updates"; temporary files are created in "temp".
storeUpdatesDir == "updates"
tempDir == "temp"
NonePath == [dir |-> None, name |-> None]
StoreA == [dir |-> storeUpdatesDir, name |-> "a.exe"]
StoreB == [dir |-> storeUpdatesDir, name |-> "b.exe"]
TempA == [dir |-> tempDir, name |-> "a.exe"]

\* API version tuples.
ZeroAPI == <<0, 0, 0>>
SomeAPI == <<2025, 1, 0>>

PendingKeys == {"pendingUpdateFile", "pendingUpdateVersion",
                "pendingUpdateAPIVersion", "pendingUpdateBackCompatToAPIVersion"}

\* d[k] = v, the key added when absent.
Put(d, k, v) == [x \in (DOMAIN d) \cup {k} |-> IF x = k THEN v ELSE d[x]]

\* Mutant: only the file and the version are reset.
setStateToNone_two(d) ==
    Put(Put(d, "pendingUpdateFile", NonePath), "pendingUpdateVersion", None)

\* _setStateToNone
setStateToNone(d) ==
    Put(Put(Put(Put(d, "pendingUpdateFile", NonePath),
                "pendingUpdateVersion", None),
            "pendingUpdateAPIVersion", ZeroAPI),
        "pendingUpdateBackCompatToAPIVersion", ZeroAPI)

\* os.path.isfile
isfile(path, fs) == path \in fs

\* getPendingUpdate on the state d: the value returned (<<>> for None, else
\* <<the tuple>>) and the state it leaves.
getPendingUpdate(d, fs) ==
    IF ~(PendingKeys \subseteq DOMAIN d)
    THEN [ret |-> <<>>, state |-> setStateToNone(d)]
    ELSE IF d.pendingUpdateFile # NonePath /\ isfile(d.pendingUpdateFile, fs)
    THEN [ret |-> <<[file |-> d.pendingUpdateFile,
                     version |-> d.pendingUpdateVersion,
                     apiVersion |-> d.pendingUpdateAPIVersion,
                     backCompatTo |-> d.pendingUpdateBackCompatToAPIVersion]>>,
          state |-> d]
    ELSE [ret |-> <<>>, state |-> setStateToNone(d)]

\* isPendingUpdate
isPendingUpdate(d, fs) == getPendingUpdate(d, fs).ret # <<>>

\* initialize: the defaults when no state could be loaded.
DefaultState ==
    setStateToNone([lastCheck |-> 0, dontRemindVersion |-> None])

\* pickle.load of the state file: the dict, or NoState when the file is
\* absent or unreadable, or holds a pickled None.
pickleLoad(f) == IF f.kind = "dict" THEN f.data ELSE NoState

\* pickle.dump of the state to the state file (saveState).
pickleDump(d) ==
    IF d = NoState THEN [kind |-> "none", data |-> NoState]
    ELSE [kind |-> "dict", data |-> d]

\* Mutant: a last check in the future is not treated as being right now.
secsTillNext_noClamp(nowT, lastT) ==
    CHECK_INTERVAL
      - (Min(nowT - lastT, CHECK_INTERVAL * TicksPerSecond) \div TicksPerSecond)

\* AutoUpdateChecker.__init__: secsSinceLast = max(time.time() - lastCheck, 0)
\* and secsTillNext = CHECK_INTERVAL - int(min(secsSinceLast, CHECK_INTERVAL)),
\* the times in ticks, the result in seconds.
secsTillNext(nowT, lastT) ==
    CHECK_INTERVAL
      - (Min(Max(nowT - lastT, 0), CHECK_INTERVAL * TicksPerSecond) \div TicksPerSecond)

\* ------------------------------------------------------------------------
\* State
\* ------------------------------------------------------------------------
VARIABLES
    \* UpdateDownloader: fields set by __init__ and start
    launcherUrl,      \* updateInfo.launcherUrl, a string
    urls,             \* self.urls
    fileHash,         \* self.fileHash
    destFile,         \* the file at self.destPath: [exists, content]
    shouldCancel,     \* self._shouldCancel
    guiExecTimer,     \* self._guiExecTimer: "timer" or None
    guiExecFunc,      \* self._guiExecFunc
    guiExecArgs,      \* self._guiExecArgs
    progressDialog,   \* self._progressDialog: "dialog" or None
    \* the wx side of the notifier
    timerRunning,     \* the one-shot timer is started and has not fired
    callAfter,        \* queued wx.CallAfter(self._guiExecTimer.Start, 50, True)
    notifyFunc,       \* _guiExecNotify: the function it has loaded, or Idle
    \* the worker thread (_bg, _download, _guiExec)
    bgPc,             \* position of the worker
    urlIdx,           \* index in self.urls of the URL of the for loop
    size, read, chunk, block, hasher,   \* locals of _download
    geFunc, geArgs, geRet,              \* _guiExec: arguments, return position
    \* history
    attempts,         \* per call of _download: [url, result, cancelled]: the
                      \* URL, how the call ended, _shouldCancel when it began
    posted,           \* the terminal callback _bg has passed to _guiExec
    invoked,          \* the callbacks run on the GUI context, in order
    cancelledAt       \* position of the worker when _shouldCancel was set

VARIABLES
    \* the module and its environment
    state,            \* the module global state: a dict, or NoState for None
    stateFile,        \* the file WritePaths.updateCheckStateFile: [kind, data]
    files,            \* the paths at which a file exists
    storeDirExists,   \* storeUpdatesDir exists (os.makedirs succeeded)
    conf,             \* config.conf["update"] and globalVars.appArgs.launcher
    now,              \* time.time(), in ticks
    autoChecker,      \* the module global autoChecker: "checker" or None
    checkTimer,       \* AutoUpdateChecker._checkTimer: [armed, ms]
    lifecycle,        \* "start", "running", "initFailed" or "terminated"
    \* history
    startup,          \* what initialize found: the record loaded, the files
    sweepError,       \* the startup sweep stopped on an OSError
    lastOp,           \* the last operation of the module that ran
    pendingCall       \* the last getPendingUpdate call: [before, ret]

VARIABLES
    \* the update checks
    checkers,         \* the check workers (threads running _bg), in start order
    wxQueue,          \* the calls queued with wx.CallAfter by the checks
    timerInfo,        \* when _checkTimer was last started, and by whom
    shown,            \* the UpdateResultDialogs created
    ticks             \* the number of clock steps taken

modVars == <<state, stateFile, files, storeDirExists, conf, now, autoChecker,
             checkTimer, lifecycle, startup, sweepError, lastOp, pendingCall>>

checkVars == <<checkers, wxQueue, timerInfo, shown, ticks>>

VARIABLES
    \* the downloaded updates and the handoff to the installer
    askInstall,       \* the open UpdateAskInstallDialogs: [path, version, canPostpone]
    exiting,          \* the host is in the process of exiting
    handoffs,         \* the calls of core.triggerNVDAExit by _executeUpdate
    errors,           \* the messages _executeUpdate has logged with log.error
    saveFailed,       \* the last saveState could not write the state file
    calls,            \* the number of calls of _executeUpdate
    downloads,        \* the number of downloads completed
    runs              \* the number of restarts of the process

updVars == <<askInstall, exiting, handoffs, errors, saveFailed, calls,
             downloads, runs>>

VARIABLES
    \* the functions of the module that are checked on their own
    fnIn,             \* the arguments and the environment of the call
    fnOut             \* what the call returned or raised

fnVars == <<fnIn, fnOut>>

lifeVars == <<modVars, checkVars, updVars, fnVars>>

dlVars == <<launcherUrl, urls, fileHash, destFile, shouldCancel, guiExecTimer,
            guiExecFunc, guiExecArgs, progressDialog, timerRunning, callAfter,
            notifyFunc, bgPc, urlIdx, size, read, chunk, block, hasher,
            geFunc, geArgs, geRet, attempts, posted, invoked, cancelledAt>>

vars == <<dlVars, lifeVars>>

workerVars == <<urlIdx, size, read, chunk, block, hasher>>
guiSlot == <<guiExecTimer, guiExecFunc, guiExecArgs, progressDialog>>
wxVars == <<timerRunning, callAfter, notifyFunc>>
history == <<attempts, posted, invoked, cancelledAt>>
session == <<launcherUrl, urls, fileHash>>

\* ------------------------------------------------------------------------
\* UpdateDownloader.__init__ and start
\* ------------------------------------------------------------------------

\* The descriptors explored: 1..MaxMirrors mirrors, with or without a hash.
Descriptors ==
    { [launcherUrl |-> join(ids), launcherHash |-> h] :
        ids \in UNION { [1..n -> MirrorIds] : n \in 1..MaxMirrors },
        h \in {<<>>, <<sha1(Artifact)>>} }

\* The state after UpdateDownloader(updateInfo).start(), before the worker
\* thread has run: the empty temporary file exists, nothing is posted.
DownloaderInit ==
    \E info \in Descriptors :
        /\ launcherUrl = info.launcherUrl
        /\ urls = split(info.launcherUrl, <<>>, <<>>)
        /\ fileHash = info.launcherHash
        /\ destFile = [exists |-> TRUE, content |-> <<>>]
        /\ shouldCancel = FALSE
        /\ guiExecTimer = "timer"
        /\ guiExecFunc = Unset
        /\ guiExecArgs = UnsetArgs
        /\ progressDialog = "dialog"
        /\ timerRunning = FALSE
        /\ callAfter = 0
        /\ notifyFunc = Idle
        /\ bgPc = "for"
        /\ urlIdx = 1
        /\ size = 0 /\ read = 0 /\ chunk = 0 /\ block = <<>> /\ hasher = 0
        /\ geFunc = Unset /\ geArgs = <<>> /\ geRet = Unset
        /\ attempts = <<>>
        /\ posted = None
        /\ invoked = <<>>
        /\ cancelledAt = None

\* ------------------------------------------------------------------------
\* The worker thread: UpdateDownloader._bg, _download and _guiExec
\* ------------------------------------------------------------------------

\* The attempt in progress ends with result r.
endAttempt(r) == [attempts EXCEPT ![Len(attempts)].result = r]

\* A call self._guiExec(func, *args) begins; the caller resumes at ret.
guiExecCall(func, args, ret) ==
    /\ geFunc' = func
    /\ geArgs' = args
    /\ geRet' = ret
    /\ bgPc' = "ge_func"

\* Mutant: a failed attempt ends the worker thread.
exceptNextUrl_fatal ==
    /\ attempts' = endAttempt("failed")
    /\ urlIdx' = urlIdx
    /\ bgPc' = "crashed"

\* _bg: "except: log.error(...)": the for loop goes on with the next URL.
exceptNextUrl ==
    /\ attempts' = endAttempt("failed")
    /\ urlIdx' = urlIdx + 1
    /\ bgPc' = "for"

\* _bg, the for loop with a URL left: _download(url) up to its first
\* _guiExec. urlopen raises, or the status is not 200 (RuntimeError), or the
\* destination is opened "wb" (created or truncated).
BgDownloadOpen ==
    /\ UNCHANGED lifeVars
    /\ bgPc = "for"
    /\ urlIdx <= Len(urls)
    /\ LET remote == urlopen(urls[urlIdx])
           opened(r) == [url |-> urls[urlIdx], result |-> r, cancelled |-> shouldCancel]
           started == Append(attempts, opened("running"))
       IN IF remote.openError \/ remote.code # 200
          THEN /\ attempts' = Append(attempts, opened("failed"))
               /\ urlIdx' = urlIdx + 1
               /\ bgPc' = "for"
               /\ UNCHANGED <<destFile, size, read, chunk, block, hasher,
                              geFunc, geArgs, geRet>>
          ELSE /\ attempts' = started
               /\ size' = remote.size
               /\ destFile' = [exists |-> TRUE, content |-> <<>>]
               /\ hasher' = 0
               /\ read' = 0
               /\ chunk' = DOWNLOAD_BLOCK_SIZE
               /\ block' = <<>>
               /\ guiExecCall("_downloadReport", <<0, remote.size>>, "read")
               /\ UNCHANGED urlIdx
    /\ UNCHANGED <<session, shouldCancel, guiSlot, wxVars, posted, invoked, cancelledAt>>

\* _bg, the else clause of the for loop: none of the URLs succeeded.
BgExhausted ==
    /\ UNCHANGED lifeVars
    /\ bgPc = "for"
    /\ urlIdx > Len(urls)
    /\ posted' = "_error"
    /\ guiExecCall("_error", <<>>, "done")
    /\ UNCHANGED <<session, destFile, shouldCancel, guiSlot, wxVars, workerVars,
                   attempts, invoked, cancelledAt>>

\* _download, the head of the while loop: the cancellation check, the chunk
\* size and the blocking read.
BgRead ==
    /\ UNCHANGED lifeVars
    /\ bgPc = "read"
    /\ IF shouldCancel
       THEN /\ bgPc' = "else"
            /\ UNCHANGED <<chunk, block, read>>
       ELSE LET c == nextChunk(chunk, size, read)
                b == remoteRead(urlopen(urls[urlIdx]).body, read, c)
            IN /\ chunk' = c
               /\ block' = b
               /\ IF b = <<>>
                  THEN bgPc' = "verify" /\ UNCHANGED read
                  ELSE bgPc' = "write" /\ read' = read + Len(b)
    /\ UNCHANGED <<session, destFile, shouldCancel, guiSlot, wxVars, urlIdx, size,
                   hasher, geFunc, geArgs, geRet, history>>

\* _download, after the read: the second cancellation check, local.write,
\* hasher.update and the progress report.
BgWrite ==
    /\ UNCHANGED lifeVars
    /\ bgPc = "write"
    /\ IF shouldCancel
       THEN /\ bgPc' = "else"
            /\ UNCHANGED <<destFile, hasher, geFunc, geArgs, geRet>>
       ELSE /\ destFile' = [destFile EXCEPT !.content = @ \o block]
            /\ hasher' = IF fileHash # <<>> THEN sha1Update(hasher, block) ELSE hasher
            /\ guiExecCall("_downloadReport", <<read, size>>, "read")
    /\ UNCHANGED <<session, shouldCancel, guiSlot, wxVars, urlIdx, size, read,
                   chunk, block, history>>

\* _download, after the loop: the length and hash checks, then the last
\* progress report.
BgVerify ==
    /\ UNCHANGED lifeVars
    /\ bgPc = "verify"
    /\ IF contentTooShort(read, size) \/ incorrectFileHash(fileHash, hasher)
       THEN /\ exceptNextUrl
            /\ UNCHANGED <<geFunc, geArgs, geRet>>
       ELSE /\ guiExecCall("_downloadReport", <<read, size>>, "else")
            /\ UNCHANGED <<attempts, urlIdx>>
    /\ UNCHANGED <<session, destFile, shouldCancel, guiSlot, wxVars, size, read,
                   chunk, block, hasher, posted, invoked, cancelledAt>>

\* Mutant: no break after an attempt that returned; the loop goes on.
BgElse_noBreak ==
    /\ UNCHANGED lifeVars
    /\ bgPc = "else"
    /\ attempts' = endAttempt("returned")
    /\ urlIdx' = urlIdx + 1
    /\ bgPc' = "for"
    /\ UNCHANGED <<session, destFile, shouldCancel, guiSlot, wxVars, size, read,
                   chunk, block, hasher, geFunc, geArgs, geRet, posted, invoked,
                   cancelledAt>>

\* _bg, the else clause of the try (_download returned: downloaded or
\* cancelled), the break and what follows the loop: the file is removed
\* unless the download succeeded.
BgElse ==
    /\ UNCHANGED lifeVars
    /\ bgPc = "else"
    /\ attempts' = endAttempt("returned")
    /\ IF ~shouldCancel
       THEN /\ posted' = "_downloadSuccess"
            /\ guiExecCall("_downloadSuccess", <<>>, "done")
            /\ UNCHANGED destFile
       ELSE /\ destFile' = [exists |-> FALSE, content |-> <<>>]
            /\ bgPc' = "done"
            /\ UNCHANGED <<posted, geFunc, geArgs, geRet>>
    /\ UNCHANGED <<session, shouldCancel, guiSlot, wxVars, workerVars, invoked,
                   cancelledAt>>

\* An AttributeError in _guiExec (self._guiExecTimer is None): caught by _bg
\* when _guiExec was called from _download, not caught when _bg called it.
guiExecRaise ==
    IF geRet = "done"
    THEN bgPc' = "crashed" /\ UNCHANGED <<attempts, urlIdx>>
    ELSE exceptNextUrl

\* _guiExec: self._guiExecFunc = func
GeSetFunc ==
    /\ UNCHANGED lifeVars
    /\ bgPc = "ge_func"
    /\ guiExecFunc' = geFunc
    /\ bgPc' = "ge_args"
    /\ UNCHANGED <<session, destFile, shouldCancel, guiExecTimer, guiExecArgs,
                   progressDialog, wxVars, workerVars, geFunc, geArgs, geRet, history>>

\* _guiExec: self._guiExecArgs = args
GeSetArgs ==
    /\ UNCHANGED lifeVars
    /\ bgPc = "ge_args"
    /\ guiExecArgs' = geArgs
    /\ bgPc' = "ge_running"
    /\ UNCHANGED <<session, destFile, shouldCancel, guiExecTimer, guiExecFunc,
                   progressDialog, wxVars, workerVars, geFunc, geArgs, geRet, history>>

\* _guiExec: if not self._guiExecTimer.IsRunning()
GeIsRunning ==
    /\ UNCHANGED lifeVars
    /\ bgPc = "ge_running"
    /\ IF guiExecTimer = None THEN guiExecRaise
       ELSE /\ bgPc' = IF timerRunning THEN geRet ELSE "ge_callafter"
            /\ UNCHANGED <<attempts, urlIdx>>
    /\ UNCHANGED <<session, destFile, shouldCancel, guiSlot, wxVars, size, read,
                   chunk, block, hasher, geFunc, geArgs, geRet, posted, invoked,
                   cancelledAt>>

\* _guiExec: wx.CallAfter(self._guiExecTimer.Start, 50, True)
GeCallAfter ==
    /\ UNCHANGED lifeVars
    /\ bgPc = "ge_callafter"
    /\ IF guiExecTimer = None
       THEN guiExecRaise /\ UNCHANGED callAfter
       ELSE /\ callAfter' = callAfter + 1
            /\ bgPc' = geRet
            /\ UNCHANGED <<attempts, urlIdx>>
    /\ UNCHANGED <<session, destFile, shouldCancel, guiSlot, timerRunning,
                   notifyFunc, size, read, chunk, block, hasher, geFunc, geArgs,
                   geRet, posted, invoked, cancelledAt>>

\* ------------------------------------------------------------------------
\* The GUI context: the notifier timer and the callbacks
\* ------------------------------------------------------------------------

\* _stopped: the three notifier fields are cleared; Hide() then raises
\* AttributeError when the progress dialog is already gone.
stopped ==
    /\ guiExecTimer' = None
    /\ guiExecFunc' = None
    /\ guiExecArgs' = NoneArgs
    /\ progressDialog' = None

\* A queued wx.CallAfter(timer.Start, 50, True) runs: the timer is (re)started.
GuiTimerStart ==
    /\ UNCHANGED lifeVars
    /\ notifyFunc = Idle
    /\ callAfter > 0
    /\ callAfter' = callAfter - 1
    /\ timerRunning' = TRUE
    /\ UNCHANGED <<session, destFile, shouldCancel, guiSlot, notifyFunc, bgPc,
                   workerVars, geFunc, geArgs, geRet, history>>

\* The one-shot timer fires; _guiExecNotify loads self._guiExecFunc.
GuiNotifyLoad ==
    /\ UNCHANGED lifeVars
    /\ notifyFunc = Idle
    /\ timerRunning
    /\ timerRunning' = FALSE
    /\ notifyFunc' = guiExecFunc
    /\ UNCHANGED <<session, destFile, shouldCancel, guiSlot, callAfter, bgPc,
                   workerVars, geFunc, geArgs, geRet, history>>

\* _downloadReport(read, size): nothing when cancelled; else the dialog is
\* updated and tells whether the user has pressed Cancel.
downloadReport ==
    IF shouldCancel
    THEN UNCHANGED <<shouldCancel, guiSlot, cancelledAt>>
    ELSE \E cont \in BOOLEAN :
            IF cont
            THEN UNCHANGED <<shouldCancel, guiSlot, cancelledAt>>
            ELSE /\ shouldCancel' = TRUE
                 /\ cancelledAt' = bgPc
                 /\ stopped

\* _guiExecNotify calls the loaded function with self._guiExecArgs: a
\* TypeError unless the function is callable and takes that many arguments.
GuiNotifyCall ==
    /\ UNCHANGED lifeVars
    /\ notifyFunc # Idle
    /\ notifyFunc' = Idle
    /\ IF notifyFunc = "_downloadReport" /\ Len(guiExecArgs) = 2
       THEN downloadReport /\ UNCHANGED invoked
       ELSE IF notifyFunc \in {"_error", "_downloadSuccess"} /\ guiExecArgs = <<>>
       THEN /\ invoked' = Append(invoked, [func |-> notifyFunc,
                                            completed |-> progressDialog # None])
            /\ stopped
            /\ UNCHANGED <<shouldCancel, cancelledAt>>
       ELSE UNCHANGED <<shouldCancel, guiSlot, invoked, cancelledAt>>
    /\ UNCHANGED <<session, destFile, timerRunning, callAfter, bgPc, workerVars,
                   geFunc, geArgs, geRet, attempts, posted>>

\* ------------------------------------------------------------------------
\* The module: initialize and getPendingUpdate
\* ------------------------------------------------------------------------

\* uuid4().hex
Uuids == {"id1", "id2"}

\* The instant of the startup, and the lastCheck values explored around it:
\* never checked, long ago, around one CHECK_INTERVAL ago, just now, and in
\* the future (the system clock was moved backwards).
Now0 == 3 * CHECK_INTERVAL * TicksPerSecond
LastChecks ==
    {0, Now0 - 2 * CHECK_INTERVAL * TicksPerSecond,
     Now0 - CHECK_INTERVAL * TicksPerSecond - 1,
     Now0 - CHECK_INTERVAL * TicksPerSecond,
     Now0 - CHECK_INTERVAL * TicksPerSecond + 1,
     Now0 - 1, Now0, Now0 + 1,
     Now0 + CHECK_INTERVAL * TicksPerSecond}

\* The pending group of a saved state: the four fields as _setStateToNone
\* leaves them, or as a postpone records them (in storeUpdatesDir, or at the
\* temporary path when the move failed).
PendingGroups ==
    {[pendingUpdateFile |-> NonePath, pendingUpdateVersion |-> None,
      pendingUpdateAPIVersion |-> ZeroAPI,
      pendingUpdateBackCompatToAPIVersion |-> ZeroAPI]}
    \cup
    {[pendingUpdateFile |-> p, pendingUpdateVersion |-> v,
      pendingUpdateAPIVersion |-> SomeAPI,
      pendingUpdateBackCompatToAPIVersion |-> SomeAPI] :
        p \in {StoreA, TempA}, v \in {RunningVersion, NewVersion}}

\* The restriction of a dict to some of its keys.
Restrict(d, keys) == [k \in (DOMAIN d) \cap keys |-> d[k]]

\* The dicts a state file can hold. Every version of the program saved
\* lastCheck and dontRemindVersion; earlier ones saved no pending group, or
\* only its file and version, and no id.
SavedStates ==
    {Restrict(base @@ g, keys) :
        base \in {[lastCheck |-> t, dontRemindVersion |-> None, id |-> "id0"] :
                     t \in LastChecks},
        g \in PendingGroups,
        keys \in {{"lastCheck", "dontRemindVersion"},
                  {"lastCheck", "dontRemindVersion", "id"} \cup PendingKeys,
                  {"lastCheck", "dontRemindVersion"} \cup PendingKeys,
                  {"lastCheck", "dontRemindVersion", "id",
                   "pendingUpdateFile", "pendingUpdateVersion"},
                  {"lastCheck", "dontRemindVersion",
                   "pendingUpdateFile", "pendingUpdateVersion"}}}

\* The state files: absent, unreadable, or a saved dict.
StateFiles ==
    {[kind |-> "absent", data |-> NoState], [kind |-> "corrupt", data |-> NoState]}
    \cup {[kind |-> "dict", data |-> d] : d \in SavedStates}

Confs == [autoCheck : BOOLEAN, startupNotification : BOOLEAN, launcher : BOOLEAN]

NoTimer == [armed |-> FALSE, ms |-> 0]
NoStartup == [record |-> NoState, files |-> {}, pending |-> FALSE]
NoPendingCall == [called |-> FALSE, before |-> NoState, ret |-> <<>>]

\* No function is being checked on its own.
NoFunction ==
    /\ fnIn = [kind |-> "none"]
    /\ fnOut = [kind |-> "none"]

\* No download has completed and _executeUpdate has not been called.
NoUpdate ==
    /\ askInstall = {}
    /\ exiting = FALSE
    /\ handoffs = <<>>
    /\ errors = {}
    /\ saveFailed = FALSE
    /\ calls = 0
    /\ downloads = 0
    /\ runs = 0

\* No check has run; the timer has never been started.
NoChecks ==
    /\ checkers = <<>>
    /\ wxQueue = <<>>
    /\ timerInfo = [at |-> 0, by |-> 0]
    /\ shown = {}
    /\ ticks = 0

\* The process has started; initialize has not run.
StartupInit ==
    /\ state = NoState
    /\ stateFile \in StateFiles
    /\ storeDirExists \in BOOLEAN
    /\ files \in SUBSET {StoreA, StoreB, TempA}
    /\ storeDirExists \/ files \subseteq {TempA}
    /\ conf \in Confs
    /\ now = Now0
    /\ autoChecker = None
    /\ checkTimer = NoTimer
    /\ lifecycle = "start"
    /\ startup = NoStartup
    /\ sweepError = FALSE
    /\ lastOp = None
    /\ pendingCall = NoPendingCall
    /\ NoChecks
    /\ NoUpdate

\* initialize raised: the statements after the raise have not run.
initRaise(d, fs) ==
    /\ state' = d
    /\ files' = fs
    /\ autoChecker' = None
    /\ checkTimer' = NoTimer
    /\ lifecycle' = "initFailed"

\* initialize, from "if not globalVars.appArgs.launcher" on, with
\* AutoUpdateChecker.__init__: d is the state and fs the files after the
\* sweep. isPendingUpdate is evaluated only where the "and"/"or" reach it.
createAutoChecker(d, fs) ==
    LET g1 == getPendingUpdate(d, fs)
        asked == ~conf.launcher /\ ~conf.autoCheck /\ conf.startupNotification
        d1 == IF asked THEN g1.state ELSE d
        create == ~conf.launcher
                    /\ (conf.autoCheck \/ (conf.startupNotification /\ g1.ret # <<>>))
        g2 == getPendingUpdate(d1, fs)
        d2 == IF conf.startupNotification THEN g2.state ELSE d1
        instantly == conf.startupNotification /\ g2.ret # <<>>
    IN /\ files' = fs
       /\ IF ~create
          THEN /\ state' = d1
               /\ autoChecker' = None
               /\ checkTimer' = NoTimer
               /\ lifecycle' = "running"
               /\ startup' = [record |-> pickleLoad(stateFile), files |-> files,
                              pending |-> FALSE]
          ELSE /\ state' = d2
               /\ startup' = [record |-> pickleLoad(stateFile), files |-> files,
                              pending |-> instantly]
               /\ IF instantly
                  THEN /\ checkTimer' = [armed |-> TRUE, ms |-> 0]
                       /\ autoChecker' = "checker"
                       /\ lifecycle' = "running"
                  ELSE IF "lastCheck" \notin DOMAIN d2
                  THEN /\ checkTimer' = NoTimer
                       /\ autoChecker' = None
                       /\ lifecycle' = "initFailed"
                  ELSE /\ checkTimer' = [armed |-> TRUE,
                                         ms |-> secsTillNext(now, d2.lastCheck) * 1000]
                       /\ autoChecker' = "checker"
                       /\ lifecycle' = "running"

\* Mutant: the pending version is not compared with the running version.
checkPendingVersion_keyOnly(d) ==
    IF "pendingUpdateVersion" \notin DOMAIN d THEN setStateToNone(d) ELSE d

\* initialize: "if 'pendingUpdateVersion' not in state or
\* state['pendingUpdateVersion'] == versionInfo.version: _setStateToNone(state)"
checkPendingVersion(d) ==
    IF "pendingUpdateVersion" \notin DOMAIN d \/ d.pendingUpdateVersion = RunningVersion
    THEN setStateToNone(d) ELSE d

\* Mutant: the sweep removes every file of the listing.
sweepTargets_all(listing, d) == listing

\* initialize, the sweep: the files of the listing that os.remove is called on.
sweepTargets(listing, d) == {f \in listing : f # d.pendingUpdateFile}

\* initialize: the state is loaded or defaulted, the id added, the pending
\* group reset when its version is absent or is the running version, the
\* files of storeUpdatesDir other than the pending file removed (an OSError
\* stops the sweep), and the AutoUpdateChecker created when configured.
Initialize ==
    /\ lifecycle = "start"
    /\ lastOp' = "initialize"
    /\ \E u \in Uuids :
         LET loaded == pickleLoad(stateFile)
             s0 == IF loaded = NoState THEN DefaultState ELSE loaded
             s1 == IF "id" \notin DOMAIN s0 THEN Put(s0, "id", u) ELSE s0
             s2 == checkPendingVersion(s1)
             listing == {f \in files : f.dir = storeUpdatesDir}
         IN IF \/ ~storeDirExists /\ stateFile.kind = "absent"
               \/ listing # {} /\ "pendingUpdateFile" \notin DOMAIN s2
            THEN \* os.listdir raises OSError and the handler reads f, which
                 \* is unbound when the open of the state file failed; or
                 \* state["pendingUpdateFile"] raises KeyError
                 /\ initRaise(s2, files)
                 /\ startup' = [record |-> loaded, files |-> files, pending |-> FALSE]
                 /\ UNCHANGED sweepError
            ELSE IF ~storeDirExists
            THEN \* os.listdir raises OSError; the handler logs it
                 /\ sweepError' = TRUE
                 /\ createAutoChecker(s2, files)
            ELSE \E removed \in SUBSET sweepTargets(listing, s2) :
                 /\ sweepError' = (removed # sweepTargets(listing, s2))
                 /\ createAutoChecker(s2, files \ removed)
    /\ timerInfo' = [at |-> now, by |-> 0]
    /\ UNCHANGED <<stateFile, storeDirExists, conf, now, pendingCall>>
    /\ UNCHANGED <<checkers, wxQueue, shown, ticks>>
    /\ UNCHANGED updVars
    /\ UNCHANGED dlVars
    /\ UNCHANGED fnVars

\* A call of getPendingUpdate (by isPendingUpdate, executePendingUpdate or
\* UpdateResultDialog) on the running module.
GetPendingUpdate ==
    /\ lifecycle = "running"
    /\ LET g == getPendingUpdate(state, files)
       IN /\ state' = g.state
          /\ pendingCall' = [called |-> TRUE, before |-> state, ret |-> g.ret]
    /\ lastOp' = "getPendingUpdate"
    /\ UNCHANGED <<stateFile, files, storeDirExists, conf, now, autoChecker,
                   checkTimer, lifecycle, startup, sweepError>>
    /\ UNCHANGED checkVars
    /\ UNCHANGED updVars
    /\ UNCHANGED dlVars
    /\ UNCHANGED fnVars

\* No download exists.
NoDownload ==
    /\ launcherUrl = <<>>
    /\ urls = <<>>
    /\ fileHash = <<>>
    /\ destFile = [exists |-> FALSE, content |-> <<>>]
    /\ shouldCancel = FALSE
    /\ guiExecTimer = None
    /\ guiExecFunc = Unset
    /\ guiExecArgs = UnsetArgs
    /\ progressDialog = None
    /\ timerRunning = FALSE
    /\ callAfter = 0
    /\ notifyFunc = Idle
    /\ bgPc = "none"
    /\ urlIdx = 1
    /\ size = 0 /\ read = 0 /\ chunk = 0 /\ block = <<>> /\ hasher = 0
    /\ geFunc = Unset /\ geArgs = <<>> /\ geRet = Unset
    /\ attempts = <<>>
    /\ posted = None
    /\ invoked = <<>>
    /\ cancelledAt = None

\* The module as a first run of the program leaves it (no state file, no
\* automatic checks): the setting of a download.
ModuleRunning ==
    /\ state = Put(DefaultState, "id", "id1")
    /\ stateFile = [kind |-> "absent", data |-> NoState]
    /\ storeDirExists = TRUE
    /\ files = {}
    /\ conf = [autoCheck |-> FALSE, startupNotification |-> FALSE, launcher |-> FALSE]
    /\ now = Now0
    /\ autoChecker = None
    /\ checkTimer = NoTimer
    /\ lifecycle = "running"
    /\ startup = NoStartup
    /\ sweepError = FALSE
    /\ lastOp = "initialize"
    /\ pendingCall = NoPendingCall
    /\ NoChecks
    /\ NoUpdate

\* ------------------------------------------------------------------------
\* The startup specification
\* ------------------------------------------------------------------------
StartupNext ==
    \/ Initialize
    \/ GetPendingUpdate

InitStartup == StartupInit /\ NoDownload /\ NoFunction

SpecStartup == InitStartup /\ [][StartupNext]_vars

\* ------------------------------------------------------------------------
\* The update checks: UpdateChecker, AutoUpdateChecker and the check timer
\* ------------------------------------------------------------------------
MaxCheckers == 2
MaxTicks == 1
DaysPerMonth == 4

\* The steps by which the clock advances between two steps of the program.
ClockSteps == {RETRY_INTERVAL * TicksPerSecond, CHECK_INTERVAL * TicksPerSecond}

\* (year, month) of a time, as _bg compares them; the months of the model
\* are DaysPerMonth days long.
monthOf(t) == t \div (DaysPerMonth * CHECK_INTERVAL * TicksPerSecond)

\* The ticks a timer of ms milliseconds runs.
msToTicks(ms) == (ms * TicksPerSecond) \div 1000

\* Mutant: the retry interval is not used.
nextCheckMs_noRetry(isRetry) == CHECK_INTERVAL * 1000

\* setNextCheck: (RETRY_INTERVAL if isRetry else CHECK_INTERVAL) * 1000
nextCheckMs(isRetry) ==
    (IF isRetry THEN RETRY_INTERVAL ELSE CHECK_INTERVAL) * 1000

\* A call queued with wx.CallAfter by check worker i.
Call(f, ms, i, info, auto) ==
    [f |-> f, ms |-> ms, by |-> i, info |-> info, auto |-> auto]

\* The answers of the update server to a check: no update, or an update.
Answers == {None, NewVersion}

\* A version newer than NewVersion.
NewerVersion == "v3"

\* What checkForUpdate may return to check i: the first check of a run may
\* also be offered the newer version.
Offered(i) == IF i = 1 THEN Answers \cup {NewerVersion} ELSE Answers

\* Mutant: the automatic check shows every update it is offered.
surfaces_always(info, d) == info # None

\* AutoUpdateChecker._result: the dialog is queued unless there is no update
\* or its version is state["dontRemindVersion"].
surfaces(info, d) == info # None /\ info # d.dontRemindVersion

\* check(): _started() and the start of the thread that runs _bg.
startCheck(auto) ==
    checkers' = Append(checkers,
                       [auto |-> auto, pc |-> "begin", info |-> None,
                        failed |-> FALSE, isRetry |-> FALSE, posted |-> <<>>,
                        rearmed |-> FALSE, doneAt |-> 0])

\* The single-shot check timer elapses: NonReEntrantTimer runs
\* AutoUpdateChecker.check on the GUI thread.
CheckTimerFire ==
    /\ lifecycle = "running"
    /\ autoChecker # None
    /\ checkTimer.armed
    /\ now >= timerInfo.at + msToTicks(checkTimer.ms)
    /\ Len(checkers) < MaxCheckers
    /\ checkTimer' = NoTimer
    /\ startCheck(TRUE)
    /\ lastOp' = "check"
    /\ UNCHANGED <<state, stateFile, files, storeDirExists, conf, now,
                   autoChecker, lifecycle, startup, sweepError, pendingCall>>
    /\ UNCHANGED <<wxQueue, timerInfo, shown, ticks>>
    /\ UNCHANGED updVars
    /\ UNCHANGED dlVars
    /\ UNCHANGED fnVars

\* The user asks for a check: UpdateChecker().check().
ManualCheck ==
    /\ lifecycle = "running"
    /\ Len(checkers) < MaxCheckers
    /\ startCheck(FALSE)
    /\ lastOp' = "check"
    /\ UNCHANGED <<state, stateFile, files, storeDirExists, conf, now,
                   autoChecker, checkTimer, lifecycle, startup, sweepError,
                   pendingCall>>
    /\ UNCHANGED <<wxQueue, timerInfo, shown, ticks>>
    /\ UNCHANGED updVars
    /\ UNCHANGED dlVars
    /\ UNCHANGED fnVars

\* What a step of a check worker leaves alone besides state, stateFile,
\* checkers and wxQueue.
bgFrame ==
    /\ UNCHANGED <<files, storeDirExists, conf, now, autoChecker, checkTimer,
                   lifecycle, startup, sweepError, lastOp, pendingCall>>
    /\ UNCHANGED <<timerInfo, shown, ticks>>
    /\ UNCHANGED updVars
    /\ UNCHANGED dlVars
    /\ UNCHANGED fnVars

\* _bg up to the try: the id is replaced when the last check was in another
\* month.
BgBegin(i) ==
    /\ checkers[i].pc = "begin"
    /\ state # NoState
    /\ IF monthOf(state.lastCheck) # monthOf(now)
       THEN \E u \in Uuids : state' = Put(state, "id", u)
       ELSE UNCHANGED state
    /\ checkers' = [checkers EXCEPT ![i].pc = "fetch"]
    /\ UNCHANGED <<stateFile, wxQueue>>
    /\ bgFrame

\* _bg: checkForUpdate raises, and _error runs (the manual one queues the
\* end of the progress dialog and the message box; the automatic one calls
\* setNextCheck(isRetry=True)), or checkForUpdate returns.
BgFetch(i) ==
    /\ checkers[i].pc = "fetch"
    /\ \/ /\ checkers[i].auto
          /\ checkers' = [checkers EXCEPT ![i].pc = "stop", ![i].failed = TRUE,
                                          ![i].isRetry = TRUE]
          /\ UNCHANGED wxQueue
       \/ /\ ~checkers[i].auto
          /\ checkers' = [checkers EXCEPT ![i].pc = "done", ![i].failed = TRUE,
                                          ![i].doneAt = now]
          /\ wxQueue' = wxQueue \o <<Call("done", 0, i, None, FALSE),
                                     Call("messageBox", 0, i, None, FALSE)>>
       \/ /\ \E info \in Offered(i) :
               checkers' = [checkers EXCEPT ![i].pc = "result", ![i].info = info]
          /\ UNCHANGED wxQueue
    /\ UNCHANGED <<state, stateFile>>
    /\ bgFrame

\* _bg: self._result(info). The automatic one queues the dialog unless
\* there is no update or its version is state["dontRemindVersion"].
BgResult(i) ==
    /\ checkers[i].pc = "result"
    /\ checkers[i].auto /\ checkers[i].info # None => state # NoState
    /\ LET info == checkers[i].info
       IN /\ IF checkers[i].auto
             THEN IF surfaces(info, state)
                  THEN wxQueue' = Append(wxQueue,
                                         Call("UpdateResultDialog", 0, i, info, TRUE))
                  ELSE UNCHANGED wxQueue
             ELSE wxQueue' = wxQueue \o
                               <<Call("done", 0, i, None, FALSE),
                                 Call("UpdateResultDialog", 0, i, info, FALSE)>>
          /\ checkers' = [checkers EXCEPT
                            ![i].pc = IF info # None THEN "remind" ELSE "lastCheck"]
    /\ UNCHANGED <<state, stateFile>>
    /\ bgFrame

\* _bg: state["dontRemindVersion"] = info.version
BgRemind(i) ==
    /\ checkers[i].pc = "remind"
    /\ state # NoState
    /\ state' = Put(state, "dontRemindVersion", checkers[i].info)
    /\ checkers' = [checkers EXCEPT ![i].pc = "lastCheck"]
    /\ UNCHANGED <<stateFile, wxQueue>>
    /\ bgFrame

\* _bg: state["lastCheck"] = time.time()
BgLastCheck(i) ==
    /\ checkers[i].pc = "lastCheck"
    /\ state # NoState
    /\ state' = Put(state, "lastCheck", now)
    /\ checkers' = [checkers EXCEPT ![i].pc = "save"]
    /\ UNCHANGED <<stateFile, wxQueue>>
    /\ bgFrame

\* _bg: saveState(). The state is dumped, or the open of the file fails and
\* the file is as before. Nothing is raised.
BgSave(i) ==
    /\ checkers[i].pc = "save"
    /\ \E f \in {pickleDump(state), stateFile} :
         stateFile' = f
    /\ checkers' = [checkers EXCEPT ![i].pc = "ifAuto"]
    /\ UNCHANGED <<state, wxQueue>>
    /\ bgFrame

\* _bg: "if autoChecker:"
BgIfAutoChecker(i) ==
    /\ checkers[i].pc = "ifAuto"
    /\ checkers' = [checkers EXCEPT
                      ![i].pc = IF autoChecker # None THEN "stop" ELSE "done",
                      ![i].doneAt = now]
    /\ UNCHANGED <<state, stateFile, wxQueue>>
    /\ bgFrame

\* setNextCheck: wx.CallAfter(self._checkTimer.Stop)
BgPostStop(i) ==
    /\ checkers[i].pc = "stop"
    /\ lifecycle # "terminated"
    /\ wxQueue' = Append(wxQueue, Call("Stop", 0, i, None, FALSE))
    /\ checkers' = [checkers EXCEPT
                      ![i].pc = "start",
                      ![i].posted = Append(@, [f |-> "Stop", ms |-> 0])]
    /\ UNCHANGED <<state, stateFile>>
    /\ bgFrame

\* setNextCheck: wx.CallAfter(self._checkTimer.Start, ... * 1000, True); the
\* check is complete.
BgPostStart(i) ==
    /\ checkers[i].pc = "start"
    /\ lifecycle # "terminated"
    /\ LET ms == nextCheckMs(checkers[i].isRetry)
       IN /\ wxQueue' = Append(wxQueue, Call("Start", ms, i, None, FALSE))
          /\ checkers' = [checkers EXCEPT
                            ![i].pc = "done",
                            ![i].posted = Append(@, [f |-> "Start", ms |-> ms]),
                            ![i].doneAt = now]
    /\ UNCHANGED <<state, stateFile>>
    /\ bgFrame

\* The GUI thread runs the oldest call queued with wx.CallAfter: the Stop or
\* the single-shot Start of the check timer (bound methods of the timer
\* object, which run whether or not terminate has dropped the reference),
\* the creation of an UpdateResultDialog (which calls getPendingUpdate and
\* isPendingUpdate, and raises when the state is None), the end of the
\* progress dialog, or the message box.
GuiWx ==
    /\ wxQueue # <<>>
    /\ LET c == Head(wxQueue)
           g1 == getPendingUpdate(state, files)
           g2 == getPendingUpdate(g1.state, files)
       IN /\ checkTimer' = IF c.f = "Stop" THEN NoTimer
                           ELSE IF c.f = "Start" THEN [armed |-> TRUE, ms |-> c.ms]
                           ELSE checkTimer
          /\ timerInfo' = IF c.f = "Start" THEN [at |-> now, by |-> c.by]
                          ELSE timerInfo
          /\ checkers' = IF c.f = "Start"
                         THEN [checkers EXCEPT ![c.by].rearmed = TRUE]
                         ELSE checkers
          /\ state' = IF c.f = "UpdateResultDialog" /\ state # NoState
                      THEN g2.state ELSE state
          /\ shown' = IF c.f = "UpdateResultDialog" /\ state # NoState
                      THEN shown \cup {[by |-> c.by, info |-> c.info, auto |-> c.auto]}
                      ELSE shown
    /\ wxQueue' = Tail(wxQueue)
    /\ UNCHANGED <<stateFile, files, storeDirExists, conf, now, autoChecker,
                   lifecycle, startup, sweepError, lastOp, pendingCall, ticks>>
    /\ UNCHANGED updVars
    /\ UNCHANGED dlVars
    /\ UNCHANGED fnVars

\* Time passes.
Tick ==
    /\ lifecycle = "running"
    /\ ticks < MaxTicks
    /\ \E d \in ClockSteps : now' = now + d
    /\ ticks' = ticks + 1
    /\ UNCHANGED <<state, stateFile, files, storeDirExists, conf, autoChecker,
                   checkTimer, lifecycle, startup, sweepError, lastOp, pendingCall>>
    /\ UNCHANGED <<checkers, wxQueue, timerInfo, shown>>
    /\ UNCHANGED updVars
    /\ UNCHANGED dlVars
    /\ UNCHANGED fnVars

\* terminate: the state is dropped; the automatic checker's timer is stopped
\* and its reference and the checker's are cleared.
Terminate ==
    /\ lifecycle = "running"
    /\ state' = NoState
    /\ checkTimer' = IF autoChecker # None THEN NoTimer ELSE checkTimer
    /\ autoChecker' = None
    /\ lifecycle' = "terminated"
    /\ lastOp' = "terminate"
    /\ UNCHANGED <<stateFile, files, storeDirExists, conf, now, startup,
                   sweepError, pendingCall>>
    /\ UNCHANGED checkVars
    /\ UNCHANGED updVars
    /\ UNCHANGED dlVars
    /\ UNCHANGED fnVars

\* A step of _bg after terminate that raises: the assert on the state or a
\* subscript of the state that is None (TypeError), or setNextCheck on the
\* cleared autoChecker or _checkTimer (AttributeError). The thread ends.
BgFault(i) ==
    /\ lifecycle = "terminated"
    /\ \/ checkers[i].pc \in {"begin", "remind", "lastCheck", "stop", "start"}
       \/ checkers[i].pc = "result" /\ checkers[i].auto /\ checkers[i].info # None
    /\ checkers' = [checkers EXCEPT ![i].pc = "faulted"]
    /\ UNCHANGED <<state, stateFile, wxQueue>>
    /\ bgFrame

\* ------------------------------------------------------------------------
\* The check specification: a startup of the installed program, then timer
\* firings, manual checks, the check workers and the GUI thread interleaved
\* ------------------------------------------------------------------------
CheckNext ==
    \/ Initialize
    \/ CheckTimerFire
    \/ ManualCheck
    \/ \E i \in 1..Len(checkers) : BgBegin(i)
    \/ \E i \in 1..Len(checkers) : BgFetch(i)
    \/ \E i \in 1..Len(checkers) : BgResult(i)
    \/ \E i \in 1..Len(checkers) : BgRemind(i)
    \/ \E i \in 1..Len(checkers) : BgLastCheck(i)
    \/ \E i \in 1..Len(checkers) : BgSave(i)
    \/ \E i \in 1..Len(checkers) : BgIfAutoChecker(i)
    \/ \E i \in 1..Len(checkers) : BgPostStop(i)
    \/ \E i \in 1..Len(checkers) : BgPostStart(i)
    \/ GuiWx
    \/ Tick

InitCheck ==
    /\ InitStartup
    /\ storeDirExists
    /\ files \subseteq {StoreA}
    /\ conf = [autoCheck |-> TRUE, startupNotification |-> TRUE, launcher |-> FALSE]
    /\ \/ stateFile.kind = "absent"
       \/ /\ stateFile.kind = "dict"
          /\ DOMAIN stateFile.data
               = {"lastCheck", "dontRemindVersion", "id"} \cup PendingKeys
          /\ stateFile.data.lastCheck = Now0
          /\ stateFile.data.pendingUpdateFile = StoreA
          /\ stateFile.data.pendingUpdateVersion = NewVersion

SpecCheck == InitCheck /\ [][CheckNext]_vars

\* ------------------------------------------------------------------------
\* The reminder specification: the checks of a program started with a state
\* file in which an earlier check has recorded dontRemindVersion
\* ------------------------------------------------------------------------
RemindedState ==
    Put(Put(Put(DefaultState, "lastCheck", Now0),
            "dontRemindVersion", NewVersion), "id", "id0")

InitRemind ==
    /\ state = NoState
    /\ stateFile = [kind |-> "dict", data |-> RemindedState]
    /\ storeDirExists = TRUE
    /\ files = {}
    /\ conf = [autoCheck |-> TRUE, startupNotification |-> TRUE, launcher |-> FALSE]
    /\ now = Now0
    /\ autoChecker = None
    /\ checkTimer = NoTimer
    /\ lifecycle = "start"
    /\ startup = NoStartup
    /\ sweepError = FALSE
    /\ lastOp = None
    /\ pendingCall = NoPendingCall
    /\ NoChecks
    /\ NoUpdate
    /\ NoDownload
    /\ NoFunction

SpecRemind == InitRemind /\ [][CheckNext]_vars

\* ------------------------------------------------------------------------
\* The termination specification: the checks of a started program, and
\* terminate at any moment
\* ------------------------------------------------------------------------
TerminateNext ==
    \/ CheckNext
    \/ Terminate
    \/ \E i \in 1..Len(checkers) : BgFault(i)

InitTerminate ==
    /\ InitCheck
    /\ stateFile.kind = "dict"
    /\ files = {StoreA}

SpecTerminate == InitTerminate /\ [][TerminateNext]_vars

\* ------------------------------------------------------------------------
\* Properties of the check scheduling
\* ------------------------------------------------------------------------

\* The interval a completed check re-arms the timer with.
IntervalOf(w) == IF w.failed THEN RETRY_INTERVAL ELSE CHECK_INTERVAL

\* Automatic check i has completed.
AutoDone(i) == checkers[i].auto /\ checkers[i].pc = "done"

\* C7: every completed automatic check has queued the Stop and then the
\* single-shot Start of the check timer, with CHECK_INTERVAL if the check
\* succeeded and RETRY_INTERVAL if it failed; when the GUI thread has run
\* that Start the timer is armed with that interval from an instant not
\* before the completion; and from then on the timer is armed, or has fired
\* and started the next automatic check, or has been stopped by a check that
\* is re-arming it.
C7_RearmedByOutcome ==
    \A i \in 1..Len(checkers) :
      /\ AutoDone(i) =>
           checkers[i].posted
             = <<[f |-> "Stop", ms |-> 0],
                 [f |-> "Start", ms |-> IntervalOf(checkers[i]) * 1000]>>
      /\ checkers[i].auto /\ checkers[i].rearmed
           /\ checkTimer.armed /\ timerInfo.by = i
         => /\ checkTimer.ms = IntervalOf(checkers[i]) * 1000
            /\ timerInfo.at >= checkers[i].doneAt
      /\ AutoDone(i) /\ checkers[i].rearmed
         => \/ checkTimer.armed
            \/ \E j \in 1..Len(checkers) : j > i /\ checkers[j].auto
            \/ \E k \in 1..Len(wxQueue) : wxQueue[k].f = "Start"
            \/ \E j \in 1..Len(checkers) : checkers[j].pc = "start"

\* An automatic check succeeded and re-armed the timer with CHECK_INTERVAL;
\* the timer elapsed, the next automatic check failed, and the timer is
\* armed with RETRY_INTERVAL by it.
C7_Witness ==
    /\ Len(checkers) = 2
    /\ AutoDone(1) /\ ~checkers[1].failed /\ checkers[1].rearmed
    /\ AutoDone(2) /\ checkers[2].failed /\ checkers[2].rearmed
    /\ timerInfo.by = 2
    /\ checkTimer = [armed |-> TRUE, ms |-> RETRY_INTERVAL * 1000]

\* ------------------------------------------------------------------------
\* Downloaded updates: UpdateAskInstallDialog, postpone, _executeUpdate
\* ------------------------------------------------------------------------
MaxDownloads == 2
MaxRuns == 1

\* The names _createEmptyTempFileForDeletingFile can give a download.
FileNames == {"a.exe", "b.exe"}

\* Mutant: saveState writes nothing and reports no failure.
saveState_never(d, ok) ==
    /\ stateFile' = stateFile
    /\ saveFailed' = FALSE

\* saveState() of the state d: the dump, or (ok false) the open of the state
\* file fails, which saveState logs and does not raise.
saveState(d, ok) ==
    /\ stateFile' = IF ok THEN pickleDump(d) ELSE stateFile
    /\ saveFailed' = ~ok

\* The fields the postpone branch of the callback assigns.
postponeState(d, dest, version) ==
    Put(Put(Put(Put(Put(d, "pendingUpdateFile", dest),
                    "pendingUpdateVersion", version),
                "pendingUpdateAPIVersion", SomeAPI),
            "pendingUpdateBackCompatToAPIVersion", SomeAPI),
        "dontRemindVersion", None)

\* Mutant: the pending group is not cleared before the handoff.
clearPending_skipped(d) == d

\* _executeUpdate: _setStateToNone(state)
clearPending(d) == setStateToNone(d)

\* Mutant: a refused exit request is issued again.
exitRequests_retry(r) == IF r.accepted THEN <<r>> ELSE <<r, r>>

\* _executeUpdate: the calls of core.triggerNVDAExit it makes, r being the
\* request and its answer.
exitRequests(r) == <<r>>

\* _executeUpdate(path) on the state d. An empty path is logged and nothing
\* else is done. Otherwise the pending group is cleared, the state saved and
\* the exit requested with a NewNVDAInstance for path; the host refuses when
\* it is already exiting, which is logged.
executeUpdate(d, path) ==
    /\ calls' = calls + 1
    /\ IF path = NonePath
       THEN /\ errors' = errors \cup {"destPath must be a non-empty string."}
            /\ state' = d
            /\ UNCHANGED <<stateFile, saveFailed, handoffs, exiting>>
       ELSE /\ state' = clearPending(d)
            /\ \E ok \in BOOLEAN : saveState(clearPending(d), ok)
            /\ handoffs' = handoffs \o
                 exitRequests([call |-> calls + 1, path |-> path,
                               state |-> state', file |-> stateFile',
                               saved |-> ~saveFailed', accepted |-> ~exiting])
            /\ exiting' = TRUE
            /\ errors' = IF exiting
                         THEN errors \cup {"NVDA already in process of exiting"}
                         ELSE errors

\* What the actions on downloaded updates leave alone besides state,
\* stateFile, files and the update variables.
updFrame ==
    /\ UNCHANGED <<storeDirExists, conf, now, autoChecker, checkTimer, lifecycle,
                   startup, sweepError, pendingCall>>
    /\ UNCHANGED checkVars
    /\ UNCHANGED dlVars
    /\ UNCHANGED fnVars

\* A download has succeeded: its file lies at the temporary path destPath
\* and _downloadSuccess opens the UpdateAskInstallDialog.
FinishDownload ==
    /\ lifecycle = "running"
    /\ ~exiting
    /\ downloads < MaxDownloads
    /\ \E n \in FileNames, v \in {NewVersion, NewerVersion} :
         LET p == [dir |-> tempDir, name |-> n]
         IN /\ p \notin files
            /\ files' = files \cup {p}
            /\ askInstall' = askInstall \cup
                 {[path |-> p, version |-> v, canPostpone |-> storeDirExists]}
    /\ downloads' = downloads + 1
    /\ lastOp' = "download"
    /\ UNCHANGED <<state, stateFile, exiting, handoffs, errors, saveFailed,
                   calls, runs>>
    /\ updFrame

\* The callback with wx.ID_CLOSE: the file is moved into storeUpdatesDir
\* (moveFileEx without MOVEFILE_REPLACE_EXISTING; when it fails the file
\* stays and its temporary path is recorded), the pending group and
\* dontRemindVersion are assigned and the state is saved.
Postpone ==
    /\ lifecycle = "running"
    /\ \E d \in askInstall :
         /\ d.canPostpone
         /\ LET finalDest == [dir |-> storeUpdatesDir, name |-> d.path.name]
            IN \/ /\ storeDirExists /\ d.path \in files /\ finalDest \notin files
                  /\ files' = (files \ {d.path}) \cup {finalDest}
                  /\ state' = postponeState(state, finalDest, d.version)
               \/ /\ files' = files
                  /\ state' = postponeState(state, d.path, d.version)
         /\ askInstall' = askInstall \ {d}
    /\ \E ok \in BOOLEAN : saveState(state', ok)
    /\ lastOp' = "postpone"
    /\ UNCHANGED <<exiting, handoffs, errors, calls, downloads, runs>>
    /\ updFrame

\* The callback with wx.ID_OK: _executeUpdate(destPath)
Apply ==
    /\ lifecycle = "running"
    /\ \E d \in askInstall :
         /\ executeUpdate(state, d.path)
         /\ askInstall' = askInstall \ {d}
    /\ lastOp' = "apply"
    /\ UNCHANGED <<files, downloads, runs>>
    /\ updFrame

\* executePendingUpdate: nothing without a pending update, else
\* _executeUpdate of its file.
ExecutePendingUpdate ==
    /\ lifecycle = "running"
    /\ LET g == getPendingUpdate(state, files)
       IN IF g.ret = <<>>
          THEN /\ state' = g.state
               /\ UNCHANGED <<stateFile, saveFailed, handoffs, exiting, errors, calls>>
          ELSE executeUpdate(g.state, g.ret[1].file)
    /\ lastOp' = "executePendingUpdate"
    /\ UNCHANGED <<files, askInstall, downloads, runs>>
    /\ updFrame

\* _executeUpdate with an empty destPath.
ExecuteEmpty ==
    /\ lifecycle = "running"
    /\ "destPath must be a non-empty string." \notin errors
    /\ executeUpdate(state, NonePath)
    /\ lastOp' = "executeEmpty"
    /\ UNCHANGED <<files, askInstall, downloads, runs>>
    /\ updFrame

\* Another part of the host starts the exit.
HostExit ==
    /\ lifecycle = "running"
    /\ ~exiting
    /\ exiting' = TRUE
    /\ UNCHANGED <<state, stateFile, files, lastOp>>
    /\ UNCHANGED <<askInstall, handoffs, errors, saveFailed, calls, downloads, runs>>
    /\ updFrame

\* The exiting process ends and the program is started again.
Restart ==
    /\ lifecycle = "running"
    /\ exiting
    /\ runs < MaxRuns
    /\ runs' = runs + 1
    /\ lifecycle' = "start"
    /\ state' = NoState
    /\ autoChecker' = None
    /\ checkTimer' = NoTimer
    /\ askInstall' = {}
    /\ exiting' = FALSE
    /\ lastOp' = None
    /\ UNCHANGED <<stateFile, files, storeDirExists, conf, now, startup,
                   sweepError, pendingCall>>
    /\ UNCHANGED <<handoffs, errors, saveFailed, calls, downloads>>
    /\ UNCHANGED checkVars
    /\ UNCHANGED dlVars
    /\ UNCHANGED fnVars

\* ------------------------------------------------------------------------
\* The update specification: startups, completed downloads, postpone, apply
\* ------------------------------------------------------------------------
UpdateNext ==
    \/ Initialize
    \/ FinishDownload
    \/ Postpone
    \/ Apply
    \/ ExecutePendingUpdate
    \/ ExecuteEmpty
    \/ HostExit
    \/ Restart

InitUpdate ==
    /\ InitStartup
    /\ storeDirExists
    /\ files \subseteq {StoreA}
    /\ conf = [autoCheck |-> TRUE, startupNotification |-> FALSE, launcher |-> FALSE]
    /\ \/ stateFile.kind = "absent"
       \/ /\ stateFile.kind = "dict"
          /\ DOMAIN stateFile.data
               = {"lastCheck", "dontRemindVersion", "id"} \cup PendingKeys
          /\ stateFile.data.lastCheck = Now0
          /\ stateFile.data.pendingUpdateVersion = NewVersion
          /\ stateFile.data.pendingUpdateFile = StoreA

SpecUpdate == InitUpdate /\ [][UpdateNext]_vars

\* ------------------------------------------------------------------------
\* _generate_updateParameters
\* ------------------------------------------------------------------------
MaxPathLen == 2

\* The characters of a path as subprocess.list2cmdline tells them apart: a
\* plain character, a space, a backslash, a double quote.
PathChars == {"c", " ", "\\", "\""}

\* The non-empty paths of at most MaxPathLen characters.
Paths == UNION {[1..n -> PathChars] : n \in 1..MaxPathLen}

\* An option of the command line: one argument without special characters.
Word(w) == <<w>>

\* n backslashes.
Backslashes(n) == [i \in 1..n |-> "\\"]

\* Mutant: no argument is quoted.
needquote_never(arg) == FALSE

\* list2cmdline: needquote = (" " in arg) or ("\t" in arg) or not arg
needquote(arg) == arg = <<>> \/ \E i \in 1..Len(arg) : arg[i] = " "

\* list2cmdline, the loop over the characters of one argument from position
\* i with bs backslashes buffered: backslashes before a quote are doubled
\* and the quote escaped; at the end the buffer is written, twice when the
\* argument is quoted.
RECURSIVE quoteChars(_, _, _)
quoteChars(arg, i, bs) ==
    IF i > Len(arg)
    THEN Backslashes(bs) \o (IF needquote(arg) THEN Backslashes(bs) ELSE <<>>)
    ELSE IF arg[i] = "\\" THEN quoteChars(arg, i + 1, bs + 1)
    ELSE IF arg[i] = "\""
    THEN Backslashes(2 * bs) \o <<"\\", "\"">> \o quoteChars(arg, i + 1, 0)
    ELSE Backslashes(bs) \o <<arg[i]>> \o quoteChars(arg, i + 1, 0)

\* list2cmdline, one argument.
quoteArg(arg) ==
    IF needquote(arg) THEN <<"\"">> \o quoteChars(arg, 1, 0) \o <<"\"">>
    ELSE quoteChars(arg, 1, 0)

\* subprocess.list2cmdline: the arguments joined with single spaces.
RECURSIVE list2cmdline(_)
list2cmdline(seq) ==
    IF seq = <<>> THEN <<>>
    ELSE IF Len(seq) = 1 THEN quoteArg(seq[1])
    ELSE quoteArg(seq[1]) \o <<" ">> \o list2cmdline(Tail(seq))

\* The length of the run of backslashes of s that starts at position i.
RECURSIVE backslashRun(_, _)
backslashRun(s, i) ==
    IF i <= Len(s) /\ s[i] = "\\" THEN 1 + backslashRun(s, i + 1) ELSE 0

\* The arguments the new instance receives for the command line s (the
\* rules of the Windows C runtime): read from position i, cur the argument
\* being read, started whether one is being read, acc the arguments read.
RECURSIVE parseCmdline(_, _, _, _, _, _)
parseCmdline(s, i, cur, inQuote, started, acc) ==
    IF i > Len(s) THEN (IF started THEN Append(acc, cur) ELSE acc)
    ELSE IF s[i] = "\\"
    THEN LET n == backslashRun(s, i)
             j == i + n
         IN IF j <= Len(s) /\ s[j] = "\""
            THEN IF n % 2 = 0
                 THEN parseCmdline(s, j + 1, cur \o Backslashes(n \div 2),
                                   ~inQuote, TRUE, acc)
                 ELSE parseCmdline(s, j + 1,
                                   cur \o Backslashes((n - 1) \div 2) \o <<"\"">>,
                                   inQuote, TRUE, acc)
            ELSE parseCmdline(s, j, cur \o Backslashes(n), inQuote, TRUE, acc)
    ELSE IF s[i] = "\"" THEN parseCmdline(s, i + 1, cur, ~inQuote, TRUE, acc)
    ELSE IF s[i] = " " /\ ~inQuote
    THEN parseCmdline(s, i + 1, <<>>, FALSE, FALSE,
                      IF started THEN Append(acc, cur) ELSE acc)
    ELSE parseCmdline(s, i + 1, Append(cur, s[i]), inQuote, TRUE, acc)

\* _generate_updateParameters: executeParams, before list2cmdline.
executeParams(installed, writable, disableAddons, appDir, configDir) ==
    (IF installed THEN <<Word("--install"), Word("-m")>>
     ELSE IF writable
     THEN <<Word("--create-portable"), Word("-m"), Word("--portable-path"), appDir>>
     ELSE <<Word("--launcher")>>)
    \o (IF disableAddons THEN <<Word("--disable-addons")>> ELSE <<>>)
    \o <<Word("--config-path"), configDir>>

\* The environments of _generate_updateParameters: config.isInstalledCopy(),
\* os.access(appDir, os.W_OK), appArgs.disableAddons, globalVars.appDir and
\* WritePaths.configDir.
ParamInputs ==
    [kind : {"params"}, installed : BOOLEAN, writable : BOOLEAN,
     disableAddons : BOOLEAN, appDir : Paths, configDir : Paths]

\* A call of _generate_updateParameters.
GenerateUpdateParameters ==
    /\ fnIn.kind = "params"
    /\ fnOut.kind = "none"
    /\ fnOut' = [kind |-> "params",
                 cmdline |-> list2cmdline(
                     executeParams(fnIn.installed, fnIn.writable,
                                   fnIn.disableAddons, fnIn.appDir,
                                   fnIn.configDir))]
    /\ UNCHANGED fnIn
    /\ UNCHANGED <<modVars, checkVars, updVars>>
    /\ UNCHANGED dlVars

\* ------------------------------------------------------------------------
\* checkForUpdate: the query parameters
\* ------------------------------------------------------------------------

\* The parameters sent purely for stats gathering.
TelemetryKeys == {"id", "language", "installed", "synthDriver", "brailleDisplay",
                  "outputBrailleTable"}

\* str() of a bool, as urlencode writes it.
strBool(b) == IF b THEN "True" ELSE "False"

\* getQualifiedDriverClassNameForStats: the name of the class with the
\* origin of its code.
QualifiedName ==
    [espeak |-> "espeak (core)", noBraille |-> "noBraille (core)"]

\* "getQualifiedDriverClassNameForStats(cls) if cls else None"
driverName(cls) == IF cls = None THEN None ELSE QualifiedName[cls]

\* Mutant: the stats are sent by manual checks too.
sendsStats_manualToo(auto, allowUsageStats) == allowUsageStats

\* checkForUpdate: "if auto and allowUsageStats:"
sendsStats(auto, allowUsageStats) == auto /\ allowUsageStats

\* checkForUpdate: params, as the (key, value) pairs urlencode writes in the
\* order of insertion. e is the environment of the call.
queryParams(auto, e) ==
    <<  <<"autoCheck", strBool(auto)>>,
        <<"allowUsageStats", strBool(e.allowUsageStats)>>,
        <<"version", RunningVersion>>,
        <<"versionType", "stable">>,
        <<"osVersion", "10.0.19045 workstation">>,
        <<"x64", "True">>,
        <<"osArchitecture", "AMD64">> >>
    \o (IF sendsStats(auto, e.allowUsageStats)
        THEN << <<"id", e.id>>,
                <<"language", e.language>>,
                <<"installed", strBool(e.installed)>>,
                <<"synthDriver", driverName(e.synthDriverClass)>>,
                <<"brailleDisplay", driverName(e.brailleDisplayClass)>>,
                <<"outputBrailleTable",
                  IF e.brailleDisplayClass # None THEN e.translationTable ELSE None>> >>
        ELSE <<>>)

\* The values the stats are taken from: state["id"], the language, the
\* kind of copy, the synthesizer, the braille display and its table.
TelemetryValues ==
    [id : {"id1", "id2"}, language : {"en", "fr"}, installed : BOOLEAN,
     synthDriverClass : {None, "espeak"}, brailleDisplayClass : {None, "noBraille"},
     translationTable : {"en-ueb-g1.ctb"}]

\* The calls of checkForUpdate.
QueryInputs ==
    [kind : {"query"}, auto : BOOLEAN, allowUsageStats : BOOLEAN,
     id : {"id1", "id2"}, language : {"en", "fr"}, installed : BOOLEAN,
     synthDriverClass : {None, "espeak"}, brailleDisplayClass : {None, "noBraille"},
     translationTable : {"en-ueb-g1.ctb"}]

\* checkForUpdate up to the request.
BuildQuery ==
    /\ fnIn.kind = "query"
    /\ fnOut.kind = "none"
    /\ fnOut' = [kind |-> "query", params |-> queryParams(fnIn.auto, fnIn)]
    /\ UNCHANGED fnIn
    /\ UNCHANGED <<modVars, checkVars, updVars>>
    /\ UNCHANGED dlVars

\* ------------------------------------------------------------------------
\* UpdateInfo.parseUpdateCheckResponse
\* ------------------------------------------------------------------------
MaxLines == 3

\* The fields of UpdateInfo, and those without a default.
KnownKeys == {"version", "launcherUrl", "apiVersion", "launcherHash",
              "apiCompatTo", "changesUrl", "launcherInteractiveUrl"}

\* Mutant: apiVersion has a default.
RequiredKeys_noApiVersion == {"version", "launcherUrl"}

RequiredKeys == {"version", "launcherUrl", "apiVersion"}

\* The lines of the responses explored, as sequences of characters; a key
\* name is one character. A line is a start, a separator or none, and a rest.
ResponseLines ==
    {k \o sep \o val :
        k \in {<<"version">>, <<"launcherUrl">>, <<"apiVersion">>,
               <<"changesUrl">>, <<"x">>},
        sep \in {<<":", " ">>, <<":">>, <<>>},
        val \in {<<"x">>, <<"x", ":", " ", "x">>}}
    \cup {<<>>}

\* The lines joined with newlines: the response as the server sends it.
RECURSIVE joinLines(_)
joinLines(ls) ==
    IF ls = <<>> THEN <<>>
    ELSE IF Len(ls) = 1 THEN ls[1]
    ELSE ls[1] \o <<"\n">> \o joinLines(Tail(ls))

\* str.splitlines: the data is cut at every newline; a newline at the end
\* of the data ends the last line and starts no further one.
RECURSIVE splitlines(_, _, _)
splitlines(data, cur, acc) ==
    IF data = <<>> THEN (IF cur = <<>> THEN acc ELSE Append(acc, cur))
    ELSE IF Head(data) = "\n" THEN splitlines(Tail(data), <<>>, Append(acc, cur))
    ELSE splitlines(Tail(data), Append(cur, Head(data)), acc)

\* The position of the first ": " in line at or after i, 0 when there is none.
RECURSIVE findSep(_, _)
findSep(line, i) ==
    IF i + 1 > Len(line) THEN 0
    ELSE IF line[i] = ":" /\ line[i + 1] = " " THEN i
    ELSE findSep(line, i + 1)

\* parseUpdateCheckResponse, the loop over the lines from line i on, with
\* the metadata collected so far: the first line without ": " raises; a
\* known key is stored (a later line replaces an earlier one), an unknown
\* one dropped.
RECURSIVE parseLines(_, _, _)
parseLines(lines, i, metadata) ==
    IF i > Len(lines) THEN [ok |-> TRUE, metadata |-> metadata]
    ELSE LET line == lines[i]
             at == findSep(line, 1)
             key == SubSeq(line, 1, at - 1)
             val == SubSeq(line, at + 2, Len(line))
         IN IF at = 0 THEN [ok |-> FALSE, metadata |-> metadata]
            ELSE IF Len(key) = 1 /\ key[1] \in KnownKeys
            THEN parseLines(lines, i + 1,
                            [k \in (DOMAIN metadata) \cup {key[1]} |->
                               IF k = key[1] THEN val ELSE metadata[k]])
            ELSE parseLines(lines, i + 1, metadata)

\* parseUpdateCheckResponse(data): the UpdateInfo, or the ValueError raised.
parseUpdateCheckResponse(data) ==
    LET r == parseLines(splitlines(data, <<>>, <<>>), 1, <<>>)
        missing == RequiredKeys \ DOMAIN r.metadata
    IN IF ~r.ok
       THEN [kind |-> "parsed", ok |-> FALSE, error |-> "Invalid line format",
             missing |-> {}, info |-> <<>>]
       ELSE IF missing # {}
       THEN [kind |-> "parsed", ok |-> FALSE, error |-> "Missing required key(s)",
             missing |-> missing, info |-> <<>>]
       ELSE [kind |-> "parsed", ok |-> TRUE, error |-> None,
             missing |-> {}, info |-> r.metadata]

\* The responses: up to MaxLines of the lines, joined.
ParseInputs ==
    {[kind |-> "parse", data |-> joinLines(ls)] :
        ls \in UNION {[1..n -> ResponseLines] : n \in 0..MaxLines}}

\* A call of UpdateInfo.parseUpdateCheckResponse.
ParseResponse ==
    /\ fnIn.kind = "parse"
    /\ fnOut.kind = "none"
    /\ fnOut' = parseUpdateCheckResponse(fnIn.data)
    /\ UNCHANGED fnIn
    /\ UNCHANGED <<modVars, checkVars, updVars>>
    /\ UNCHANGED dlVars

\* ------------------------------------------------------------------------
\* The functions specification: one call of one of the functions
\* ------------------------------------------------------------------------
FunctionsNext ==
    \/ GenerateUpdateParameters
    \/ BuildQuery
    \/ ParseResponse

InitFunctions ==
    /\ fnIn \in ParamInputs \cup QueryInputs \cup ParseInputs
    /\ fnOut = [kind |-> "none"]
    /\ ModuleRunning
    /\ NoDownload

SpecFunctions == InitFunctions /\ [][FunctionsNext]_vars

\* ------------------------------------------------------------------------
\* The download specification
\* ------------------------------------------------------------------------
DownloadNext ==
    \/ BgDownloadOpen
    \/ BgExhausted
    \/ BgRead
    \/ BgWrite
    \/ BgVerify
    \/ BgElse
    \/ GeSetFunc
    \/ GeSetArgs
    \/ GeIsRunning
    \/ GeCallAfter
    \/ GuiTimerStart
    \/ GuiNotifyLoad
    \/ GuiNotifyCall

InitDownload == DownloaderInit /\ ModuleRunning /\ NoFunction

SpecDownload == InitDownload /\ [][DownloadNext]_vars

\* ------------------------------------------------------------------------
\* Properties of the downloader
\* ------------------------------------------------------------------------

\* The worker thread has ended: _bg returned, or an exception left it.
BgEnded == bgPc \in {"done", "crashed"}

\* The mirror an attempt was made on.
AttemptMirror(i) == urlopen(attempts[i].url)

\* The i-th URL of the space-separated list launcherUrl.
ListedUrl(i) == <<launcherUrl[2 * i - 1]>>

\* C1: _bg attempts the mirror URLs strictly in the order of the
\* space-separated launcherUrl list: the i-th attempt is on the i-th listed
\* URL, and every attempt but the last has failed, so that no URL is
\* attempted while an attempt is running or after one that completed
\* without failure.
C1_MirrorsInOrder ==
    /\ Len(attempts) <= Len(urls)
    /\ \A i \in 1..Len(attempts) : attempts[i].url = ListedUrl(i)
    /\ \A i \in 1..(Len(attempts) - 1) : attempts[i].result = "failed"

\* A download on three mirrors: the first two failed, the third succeeded.
C1_Witness ==
    /\ Len(urls) = 3
    /\ Len(attempts) = 3
    /\ attempts[1].result = "failed"
    /\ attempts[2].result = "failed"
    /\ attempts[3].result = "returned"
    /\ posted = "_downloadSuccess"

\* C2: success is reported (passed to _guiExec by _bg, invoked on the GUI
\* context) only when the last attempt's mirror delivered exactly its
\* declared length, the destination file holds exactly those bytes, and
\* their digest equals the expected hash when one was supplied.
C2_SuccessIsVerified ==
    /\ \A i \in 1..Len(invoked) :
          invoked[i].func = "_downloadSuccess" => posted = "_downloadSuccess"
    /\ posted = "_downloadSuccess" =>
          LET m == AttemptMirror(Len(attempts))
          IN /\ destFile.exists
             /\ Len(destFile.content) = m.size
             /\ destFile.content = m.body
             /\ fileHash # <<>> => sha1(destFile.content) = fileHash[1]

\* Success with a hash supplied, after a mirror that failed the hash check
\* had written its bytes to the destination file.
C2_Witness ==
    /\ posted = "_downloadSuccess"
    /\ fileHash # <<>>
    /\ Len(attempts) = 2
    /\ AttemptMirror(1).body = Tampered
    /\ \E i \in 1..Len(invoked) : invoked[i].func = "_downloadSuccess"

AllAttemptedAndFailed ==
    /\ Len(attempts) = Len(urls)
    /\ \A i \in 1..Len(attempts) : attempts[i].result = "failed"

LastAttemptReturned ==
    /\ attempts # <<>>
    /\ attempts[Len(attempts)].result = "returned"

\* C3: as long as the download is not cancelled, at most one terminal
\* callback runs and it is the one _bg posted; _bg posts success exactly
\* when an attempt returned and the exhausted-mirrors error exactly when
\* every mirror was attempted and failed; after a failed attempt with URLs
\* left the for loop goes on, and no exception leaves the worker thread
\* before the terminal callback is posted; when nothing is left to run, the
\* terminal callback has run.
C3_OneTerminalOutcome ==
    ~shouldCancel =>
      /\ Len(invoked) <= 1
      /\ ~ENABLED DownloadNext => Len(invoked) = 1
      /\ \A i \in 1..Len(invoked) :
            invoked[i].func = posted /\ invoked[i].completed
      /\ posted = "_downloadSuccess" => LastAttemptReturned
      /\ posted = "_error" => AllAttemptedAndFailed
      /\ BgEnded /\ LastAttemptReturned => posted = "_downloadSuccess"
      /\ BgEnded /\ AllAttemptedAndFailed => posted = "_error"
      /\ BgEnded => posted # None
      /\ bgPc = "crashed" => Len(invoked) = 1
      /\ \A i \in 1..Len(attempts) :
            attempts[i].result = "failed" /\ i < Len(urls) =>
               \/ Len(attempts) > i
               \/ bgPc = "for" /\ urlIdx = i + 1

\* All mirrors failed (a bad status, a short body and a wrong hash among
\* them), nothing was cancelled, and the error callback has run.
C3_Witness ==
    /\ ~shouldCancel
    /\ bgPc = "done"
    /\ Len(urls) > 1
    /\ AllAttemptedAndFailed
    /\ invoked = <<[func |-> "_error", completed |-> TRUE]>>

\* Every mirror of the list delivers content of the declared length whose
\* digest differs from the expected hash.
EveryMirrorTampered ==
    /\ fileHash # <<>>
    /\ \A i \in 1..Len(urls) :
          LET m == urlopen(urls[i])
          IN /\ ~m.openError /\ m.code = 200
             /\ Len(m.body) = m.size
             /\ sha1(m.body) # fileHash[1]

\* C4: a hash-verified download whose content differs from the expected
\* hash on every mirror ends with the error outcome, and once it has ended
\* (the worker has returned and the error callback has run) no file is left
\* at the destination path.
C4_TamperedFileRemoved ==
    EveryMirrorTampered /\ ~shouldCancel /\ bgPc = "done" /\ Len(invoked) = 1 =>
       /\ invoked[1].func = "_error"
       /\ ~destFile.exists

\* C5: if the cancellation flag was set while the worker was running, then
\* once the worker thread has ended no file exists at the destination path.
C5_CancelLeavesNoFile ==
    cancelledAt \notin {None, "done", "crashed"} /\ BgEnded => ~destFile.exists

\* C24: the calls the worker has queued for the GUI thread stay within the
\* single slot: at most one deferred start of the notifier timer is waiting,
\* however many blocks the worker reads before the GUI thread runs.
C24_QueueBounded == callAfter <= 1

\* A function and an argument tuple that the worker posts together:
\* _downloadReport with (read, size), _error and _downloadSuccess with none.
PostedTogether(func, args) ==
    \/ func = "_downloadReport" /\ Len(args) = 2
    \/ func \in {"_error", "_downloadSuccess"} /\ args = <<>>

\* _guiExecNotify makes its call of a function posted by the worker.
NotifyCalls ==
    /\ notifyFunc \in {"_downloadReport", "_error", "_downloadSuccess"}
    /\ notifyFunc' = Idle

\* C25: every call that _guiExecNotify makes of a posted function uses the
\* arguments the worker posted together with that function.
C25_PairsPostedTogether ==
    [][NotifyCalls => PostedTogether(notifyFunc, guiExecArgs)]_vars

\* The calls of _downloadSuccess or _error made on the GUI thread.
TerminalCalls ==
    {i \in 1..Len(invoked) : invoked[i].func \in {"_error", "_downloadSuccess"}}

\* C26: per download the terminal callback is invoked at most once, and
\* once _stopped has cleared the function slot the notifier timer never
\* fires a call on the cleared slot.
C26_TerminalOnceNoCallAfterStop ==
    /\ Cardinality(TerminalCalls) <= 1
    /\ notifyFunc # None

\* C18: once the user has cancelled (_shouldCancel is set by _downloadReport)
\* the worker opens no further mirror URL and leaves _bg by returning: no
\* call of _download begins with the flag set, and the thread does not end
\* with an exception.
C18_CancelIsCleanAbort ==
    shouldCancel =>
        /\ \A i \in 1..Len(attempts) : ~attempts[i].cancelled
        /\ bgPc # "crashed"

\* ------------------------------------------------------------------------
\* Properties of the startup and of the pending group
\* ------------------------------------------------------------------------

\* All four pending fields hold their none values.
PendingIsNone(d) ==
    /\ PendingKeys \subseteq DOMAIN d
    /\ d.pendingUpdateFile = NonePath
    /\ d.pendingUpdateVersion = None
    /\ d.pendingUpdateAPIVersion = ZeroAPI
    /\ d.pendingUpdateBackCompatToAPIVersion = ZeroAPI

\* initialize has just returned with the AutoUpdateChecker created.
SchedulerCreated ==
    lastOp = "initialize" /\ lifecycle = "running" /\ autoChecker # None

\* The ticks since the last check as AutoUpdateChecker.__init__ bounds them:
\* not negative, at most CHECK_INTERVAL.
ElapsedTicks ==
    Min(Max(now - state.lastCheck, 0), CHECK_INTERVAL * TicksPerSecond)

\* C6 as stated: the initial delay is 0 when startup notification is enabled
\* and an update is pending, and otherwise equals
\* CHECK_INTERVAL - min(max(now - lastCheck, 0), CHECK_INTERVAL) exactly.
C6_DelayExact ==
    SchedulerCreated =>
      IF conf.startupNotification /\ startup.pending
      THEN checkTimer = [armed |-> TRUE, ms |-> 0]
      ELSE /\ checkTimer.armed
           /\ checkTimer.ms * TicksPerSecond
                = (CHECK_INTERVAL * TicksPerSecond - ElapsedTicks) * 1000

\* C6, amended: the initial delay is 0 when startup notification is enabled
\* and an update is pending; otherwise it is a whole number of seconds, at
\* least CHECK_INTERVAL - min(max(now - lastCheck, 0), CHECK_INTERVAL) and
\* less than one second more (the elapsed time is truncated to whole
\* seconds); it lies in [0, CHECK_INTERVAL], is 0 when the last check is at
\* least CHECK_INTERVAL old and is CHECK_INTERVAL when lastCheck is now or in
\* the future.
C6_DelayTruncated ==
    SchedulerCreated =>
      IF conf.startupNotification /\ startup.pending
      THEN checkTimer = [armed |-> TRUE, ms |-> 0]
      ELSE LET secs == checkTimer.ms \div 1000
           IN /\ checkTimer.armed
              /\ checkTimer.ms = secs * 1000
              /\ secs * TicksPerSecond >= CHECK_INTERVAL * TicksPerSecond - ElapsedTicks
              /\ secs * TicksPerSecond
                   < CHECK_INTERVAL * TicksPerSecond - ElapsedTicks + TicksPerSecond
              /\ 0 <= secs /\ secs <= CHECK_INTERVAL
              /\ now - state.lastCheck >= CHECK_INTERVAL * TicksPerSecond => secs = 0
              /\ state.lastCheck >= now => secs = CHECK_INTERVAL

\* The scheduler was created a fraction of a second after the last check.
C6_Witness ==
    /\ SchedulerCreated
    /\ ~(conf.startupNotification /\ startup.pending)
    /\ now - state.lastCheck = 1
    /\ checkTimer = [armed |-> TRUE, ms |-> CHECK_INTERVAL * 1000]

\* What getPendingUpdate returned (ret) on the state before, leaving the state
\* after, with the files fs: a pending update only if the file is set and
\* exists, the state then unchanged; otherwise all four pending fields reset
\* and the other fields kept.
PendingCallCorrect(before, ret, after, fs) ==
    /\ ret # <<>> =>
         /\ PendingKeys \subseteq DOMAIN before
         /\ before.pendingUpdateFile # NonePath
         /\ before.pendingUpdateFile \in fs
         /\ ret[1].file = before.pendingUpdateFile
         /\ ret[1].version = before.pendingUpdateVersion
         /\ after = before
    /\ ret = <<>> =>
         /\ PendingIsNone(after)
         /\ \A k \in (DOMAIN before) \ PendingKeys :
               k \in DOMAIN after /\ after[k] = before[k]

\* C8: every call of getPendingUpdate returns a pending update only if
\* pendingUpdateFile is set and the file exists, and then leaves the state
\* unchanged; otherwise it returns None and leaves all four pending fields
\* reset. Stated of the call that has just run, and of the call that any
\* reachable state of the running module would answer.
C8_PendingReadRepairs ==
    /\ lastOp = "getPendingUpdate" =>
         PendingCallCorrect(pendingCall.before, pendingCall.ret, state, files)
    /\ lifecycle = "running" =>
         LET g == getPendingUpdate(state, files)
         IN PendingCallCorrect(state, g.ret, g.state, files)

\* A call found the recorded file missing and reset a complete pending group.
C8_Witness ==
    /\ lastOp = "getPendingUpdate"
    /\ pendingCall.ret = <<>>
    /\ PendingKeys \subseteq DOMAIN pendingCall.before
    /\ pendingCall.before.pendingUpdateFile = StoreA
    /\ pendingCall.before.pendingUpdateAPIVersion = SomeAPI
    /\ PendingIsNone(state)

\* initialize has just returned normally, having loaded a record.
Initialized ==
    lastOp = "initialize" /\ lifecycle = "running" /\ startup.record # NoState

\* The record loaded at startup names a pending file.
StartupFileSet ==
    /\ "pendingUpdateFile" \in DOMAIN startup.record
    /\ startup.record.pendingUpdateFile # NonePath

\* C9: after initialize with a persisted pendingUpdateFile that names a
\* nonexistent path, all four pending fields are reset to none, whatever the
\* autoCheck, startupNotification and launcher settings.
C9_MissingFileResetAtStartup ==
    Initialized /\ StartupFileSet
      /\ startup.record.pendingUpdateFile \notin startup.files
    => PendingIsNone(state)

\* The check workers that have not yet completed _bg.
InFlight == {i \in 1..Len(checkers) : checkers[i].pc # "done"}

\* C19: in any interleaving of timer firings, manual checks and check
\* completions at most one check worker is in flight, and the check timer is
\* not armed while an automatic check is running.
C19_ChecksNeverOverlap ==
    /\ Cardinality(InFlight) <= 1
    /\ (\E i \in InFlight : checkers[i].auto) => ~checkTimer.armed

\* A step of _bg on the thread of check worker i.
WorkerStep(i) == checkers'[i].pc # checkers[i].pc

\* C20: no check worker thread writes the shared persisted state or saves it:
\* a step of a worker's _bg leaves both the state and the state file alone,
\* every mutation and save being run by the GUI thread.
C20_StateWrittenOnGuiOnly ==
    [][\A i \in 1..Len(checkers) :
          WorkerStep(i) => state' = state /\ stateFile' = stateFile]_vars

\* C21: whenever the operations that changed the in-memory state have
\* completed (startup with a loaded record, every check worker done, no call
\* left on the GUI queue), the state file holds the values of the state.
C21_StateFlushedAfterMutation ==
    /\ lifecycle = "running"
    /\ startup.record # NoState
    /\ InFlight = {}
    /\ wxQueue = <<>>
    => pickleLoad(stateFile) = state

\* The record the startup sweep compares the listing with: the loaded record
\* after initialize's check of the pending version.
SweptRecord == checkPendingVersion(startup.record)

\* C22: after initialize, when the sweep met no filesystem error the storage
\* directory holds no file other than the pendingUpdateFile recorded when the
\* sweep ran; and the sweep never deletes that recorded pending file.
C22_SweepKeepsOnlyPending ==
    lastOp = "initialize" /\ lifecycle = "running"
    => /\ ~sweepError =>
            \A f \in files :
               f.dir = storeUpdatesDir => f = SweptRecord.pendingUpdateFile
       /\ SweptRecord.pendingUpdateFile \in startup.files
            => SweptRecord.pendingUpdateFile \in files

\* A startup that found two files in the storage directory, one of them the
\* recorded pending file, and swept the other.
C22_Witness ==
    /\ lastOp = "initialize" /\ lifecycle = "running" /\ ~sweepError
    /\ {StoreA, StoreB} \subseteq startup.files
    /\ SweptRecord.pendingUpdateFile = StoreA
    /\ files \cap {StoreA, StoreB} = {StoreA}

\* C23: after a postpone the state records the four pending fields for the
\* downloaded version, and pendingUpdateFile names a file that is in the
\* storage directory, in every outcome of the move.
C23_PostponeRelocates ==
    lastOp = "postpone"
    => /\ PendingKeys \subseteq DOMAIN state
       /\ state.pendingUpdateVersion \in {NewVersion, NewerVersion}
       /\ state.pendingUpdateAPIVersion = SomeAPI
       /\ state.pendingUpdateBackCompatToAPIVersion = SomeAPI
       /\ state.pendingUpdateFile.dir = storeUpdatesDir
       /\ state.pendingUpdateFile \in files

\* C27: after terminate the check timer is never armed again, no check worker
\* ends with an exception on the cleared state, checker or timer, and no
\* worker saves the cleared state over the state file.
C27_TerminateIsFinal ==
    lifecycle = "terminated"
    => /\ ~checkTimer.armed
       /\ \A i \in 1..Len(checkers) : checkers[i].pc # "faulted"
       /\ stateFile.kind # "none"

\* Check worker i leaves the statement of _bg at pc in this step.
Leaves(i, pc) ==
    /\ checkers[i].pc = pc
    /\ checkers'[i].pc \notin {pc, "faulted"}

\* The step queues the UpdateResultDialog of check i.
QueuesDialog(i) ==
    /\ Len(wxQueue') = Len(wxQueue) + 1
    /\ wxQueue'[Len(wxQueue')].f = "UpdateResultDialog"
    /\ wxQueue'[Len(wxQueue')].by = i

\* C28 as stated: a version that a successful check has recorded as
\* dontRemindVersion (here the one the state file held at startup), the user
\* not having cleared it, is not surfaced again by a later automatic check.
C28_NeverSurfacedAgain ==
    \A e \in shown : e.auto => e.info # startup.record.dontRemindVersion

\* C28: an automatic check queues the dialog exactly when the returned
\* version is not dontRemindVersion as read at that moment, and every
\* successful check that returns a version sets dontRemindVersion to it; so
\* no automatic check surfaces V while dontRemindVersion holds V.
C28_SurfacedUnlessReminded ==
    [][\A i \in 1..Len(checkers) :
          /\ checkers[i].auto /\ Leaves(i, "result")
                => (QueuesDialog(i) <=> /\ checkers[i].info # None
                                        /\ checkers[i].info # state.dontRemindVersion)
          /\ Leaves(i, "remind")
                => state'.dontRemindVersion = checkers[i].info]_vars

\* An automatic check was offered the version dontRemindVersion held, and
\* has completed without its dialog being queued or shown.
C28_Witness ==
    \E i \in 1..Len(checkers) :
        /\ checkers[i].auto /\ checkers[i].pc = "done" /\ ~checkers[i].failed
        /\ checkers[i].info = NewVersion
        /\ startup.record # NoState
        /\ startup.record.dontRemindVersion = NewVersion
        /\ \A e \in shown : e.by # i
        /\ \A k \in 1..Len(wxQueue) : wxQueue[k].by # i \/ wxQueue[k].f # "UpdateResultDialog"

\* C17: when the state file is absent, unreadable or corrupt (no record is
\* loaded), initialize returns normally and leaves the default state:
\* lastCheck 0, dontRemindVersion none, the pending group none, a fresh id.
C17_InitializeSurvivesStateFile ==
    lastOp = "initialize" /\ startup.record = NoState
    => /\ lifecycle = "running"
       /\ state.lastCheck = 0
       /\ state.dontRemindVersion = None
       /\ PendingIsNone(state)
       /\ state.id \in Uuids

\* The record loaded at startup has the running version as pending version.
StartupSameVersion ==
    /\ lastOp = "initialize"
    /\ startup.record # NoState
    /\ "pendingUpdateVersion" \in DOMAIN startup.record
    /\ startup.record.pendingUpdateVersion = RunningVersion

StoredFiles == {f \in files : f.dir = storeUpdatesDir}

\* C11: in every state of the running program, after any sequence of
\* downloads, postpones and applies, storeUpdatesDir holds at most one file.
C11_AtMostOneArtifact ==
    lifecycle = "running" => Cardinality(StoredFiles) <= 1

\* The state file f records a pending update.
FileRecordsPending(f) ==
    /\ f.kind = "dict"
    /\ "pendingUpdateFile" \in DOMAIN f.data
    /\ f.data.pendingUpdateFile # NonePath

C13_NoSecondExitRequest ==
    /\ Len(handoffs) <= calls
    /\ \A j, k \in 1..Len(handoffs) :
         handoffs[j].call = handoffs[k].call => j = k
    /\ \A k \in 1..Len(handoffs) :
         ~handoffs[k].accepted => "NVDA already in process of exiting" \in errors
    /\ "NVDA already in process of exiting" \in errors
         => \E k \in 1..Len(handoffs) : ~handoffs[k].accepted

\* _executeUpdate was called while the host was exiting: the request was
\* refused and the error logged.
C13_Witness ==
    /\ lastOp = "apply"
    /\ Len(handoffs) >= 1
    /\ ~handoffs[Len(handoffs)].accepted
    /\ handoffs[Len(handoffs)].call = calls
    /\ "NVDA already in process of exiting" \in errors

ReceivedArgs == parseCmdline(fnOut.cmdline, 1, <<>>, FALSE, FALSE, <<>>)

\* The number of positions of the sequence v that hold a member of ws.
Occurrences(v, ws) == Cardinality({i \in 1..Len(v) : v[i] \in ws})

\* C14: the arguments passed to the new instance start with exactly one
\* mode group ("--install -m" for an installed copy, "--create-portable -m
\* --portable-path <dir>" for a writable portable copy, "--launcher" for a
\* portable copy that is not writable), contain "--disable-addons" if and
\* only if add-ons are disabled, end with "--config-path <configDir>" and
\* hold nothing else.
C14_UpdateParameters ==
    fnOut.kind = "params" =>
      LET v == ReceivedArgs
          modeLen == IF fnIn.installed THEN 2 ELSE IF fnIn.writable THEN 4 ELSE 1
      IN /\ Len(v) = modeLen + (IF fnIn.disableAddons THEN 1 ELSE 0) + 2
         /\ SubSeq(v, 1, modeLen)
              = IF fnIn.installed THEN << <<"--install">>, <<"-m">> >>
                ELSE IF fnIn.writable
                THEN << <<"--create-portable">>, <<"-m">>, <<"--portable-path">>,
                        fnIn.appDir >>
                ELSE << <<"--launcher">> >>
         /\ Occurrences(v, {<<"--install">>, <<"--create-portable">>,
                            <<"--launcher">>}) = 1
         /\ Occurrences(v, {<<"--disable-addons">>})
              = IF fnIn.disableAddons THEN 1 ELSE 0
         /\ fnIn.disableAddons => v[modeLen + 1] = <<"--disable-addons">>
         /\ SubSeq(v, Len(v) - 1, Len(v)) = << <<"--config-path">>, fnIn.configDir >>

\* The parameters of a writable portable copy with add-ons disabled, the
\* portable directory holding a space and the configuration directory a
\* space and a backslash at its end.
C14_Witness ==
    /\ fnOut.kind = "params"
    /\ ~fnIn.installed /\ fnIn.writable /\ fnIn.disableAddons
    /\ fnIn.appDir = <<"c", " ">>
    /\ fnIn.configDir = <<" ", "\\">>
    /\ Len(ReceivedArgs) = 7

\* The keys of the query parameters built.
QueryKeys == {fnOut.params[i][1] : i \in 1..Len(fnOut.params)}

\* C15: the telemetry fields are among the query parameters if and only if
\* the check is automatic and allowUsageStats is set; otherwise none of them
\* is sent, and the parameters are the same whatever the telemetry values.
C15_TelemetryOnlyWithConsent ==
    fnOut.kind = "query" =>
      IF fnIn.auto /\ fnIn.allowUsageStats
      THEN TelemetryKeys \subseteq QueryKeys
      ELSE /\ QueryKeys \cap TelemetryKeys = {}
           /\ \A t \in TelemetryValues :
                queryParams(fnIn.auto,
                            [allowUsageStats |-> fnIn.allowUsageStats] @@ t)
                  = fnOut.params

\* An automatic check with usage stats allowed has sent the id.
C15_Witness ==
    /\ fnOut.kind = "query"
    /\ fnIn.auto /\ fnIn.allowUsageStats
    /\ \E i \in 1..Len(fnOut.params) : fnOut.params[i] = <<"id", fnIn.id>>

\* The lines of the response parsed.
DataLines == splitlines(fnIn.data, <<>>, <<>>)

\* The line holds the separator ": ".
HasSeparator(line) ==
    \E i \in 1..(Len(line) - 1) : line[i] = ":" /\ line[i + 1] = " "

\* The required keys that start a line, followed by the separator.
PresentRequired ==
    {k \in {"version", "launcherUrl", "apiVersion"} :
        \E n \in 1..Len(DataLines) :
          /\ Len(DataLines[n]) >= 3
          /\ SubSeq(DataLines[n], 1, 3) = <<k, ":", " ">>}

\* C16: the parse succeeds if and only if every line holds ": " and version,
\* launcherUrl and apiVersion all occur as keys; a line without the
\* separator fails it as an invalid line; otherwise, with required keys
\* missing, the error names exactly the missing required keys.
C16_ParseUpdateCheckResponse ==
    fnOut.kind = "parsed" =>
      LET allSeparated == \A n \in 1..Len(DataLines) : HasSeparator(DataLines[n])
          missing == {"version", "launcherUrl", "apiVersion"} \ PresentRequired
      IN /\ fnOut.ok <=> (allSeparated /\ missing = {})
         /\ ~allSeparated =>
              fnOut.error = "Invalid line format" /\ fnOut.missing = {}
         /\ allSeparated /\ missing # {} =>
              fnOut.error = "Missing required key(s)" /\ fnOut.missing = missing
         /\ fnOut.ok => {"version", "launcherUrl", "apiVersion"} \subseteq DOMAIN fnOut.info

\* A response of three well-formed lines lacks apiVersion (it has an
\* optional key instead): the error names apiVersion alone.
C16_Witness ==
    /\ fnOut.kind = "parsed"
    /\ Len(DataLines) = 3
    /\ \A n \in 1..3 : HasSeparator(DataLines[n])
    /\ DataLines[3][1] = "changesUrl"
    /\ ~fnOut.ok
    /\ fnOut.missing = {"apiVersion"}

=============================================================================
